---- MODULE Spec2Model ----
(***************************************************************************)
(* A model of the LinkedIn bulk profile scraper (maksud51/TRI).            *)
(*                                                                         *)
(* The program is a single coroutine driving one browser session, so each  *)
(* component is modelled as a sequential state machine whose steps are the *)
(* awaits of the code and whose nondeterminism is the environment: what    *)
(* the browser, the page and the random source answer.  Each component has *)
(* its own specification (SpecNav, SpecSession, ...) over its own          *)
(* variable; the variables of the other components stay at their initial   *)
(* value.                                                                  *)
(***************************************************************************)
EXTENDS Integers, Sequences, FiniteSets, TLC

VARIABLES
    nav,   \* one call of BrowserController.navigate
    ses,   \* the session resources: BrowserController.initialize / cleanup
    sp,    \* one call of ScrapeAgent.scrape_profile
    bt,    \* one call of ScrapeAgent.scrape_multiple_profiles
    db,    \* the profiles table of DatabaseManager, and its last call
    wf,    \* the workflow of LinkedInScraperApp in progress
    disc,  \* one discovery run: search_profiles / collect_connection_profiles
    val,   \* one call of ValidationAgent.validate_profile
    ex,    \* one call of DataExtractor.extract_complete_profile
    hb,    \* one call of HumanBehavior.random_delay
    xp,    \* one call of DataExtractor._extract_experience
    pci,   \* one call of DataExtractor.parse_contact_info
    ci,    \* the contact info of one scrape_profile call
    app,   \* LinkedInScraperApp.run with a workflow and a user interrupt
    ad,    \* one call of ScrapeAgent._adaptive_delay
    lk,    \* one call of _extract_profile_links / _extract_connection_links
    en,    \* one call of _extract_experience / _extract_education / _extract_certifications
    hs,    \* one call of HumanBehavior.human_scroll
    ea     \* one call of ScrapeAgent._expand_all_sections

vars ==
    <<nav, ses, sp, bt, db, wf, disc, val, ex, hb, xp, pci, ci, app, ad,
      lk, en, hs, ea>>

(***************************************************************************)
(* Generic helpers.                                                        *)
(***************************************************************************)
Last(s) == s[Len(s)]

IsPrefix(s, t) == Len(s) <= Len(t) /\ \A i \in 1..Len(s) : s[i] = t[i]

\* s contains t as a contiguous run (Python's  t in s  on strings, word-wise)
Contains(s, t) ==
    \E i \in 0..(Len(s) - Len(t)) : \A j \in 1..Len(t) : s[i + j] = t[j]

(***************************************************************************)
(* BrowserController.navigate  (src/scraper/browser_controller.py 211-295) *)
(***************************************************************************)
MaxRetriesArg == 3              \* max_retries arguments range over 0..MaxRetriesArg
TimeoutArgs == {10000, 60000}   \* timeout arguments used by the callers (ms)
JitterMin == 2000               \* random.randint(2000, 5000)
JitterMax == 5000
Jitters == {JitterMin, 3500, JitterMax}

NavIdle ==
    [pc |-> "idle", max_retries |-> 0, timeout |-> 0, attempt |-> 0,
     current_timeout |-> 0, timeouts |-> <<>>, outcomes |-> <<>>, captcha |-> "none",
     block |-> "none", reload |-> "none", result |-> "none", line |-> 0,
     nav_event |-> FALSE, challenge_text |-> "none"]

\* a next timeout that leaves the jitter out
NextTimeoutScaledOnly(t, j) == (t * 18) \div 10

\* int(current_timeout * 1.8) + random.randint(2000, 5000)
NextTimeout(t, j) == ((t * 18) \div 10) + j

\* the  while attempt < max_retries:  attempt += 1  head of the loop, and the
\* fall-through  return False  after it
NavLoopHead(n) ==
    IF n.attempt < n.max_retries
    THEN [n EXCEPT !.attempt = @ + 1, !.pc = "goto"]
    ELSE [n EXCEPT !.pc = "done", !.result = "false", !.line = 295]

NavReturn(n, r, l) == [n EXCEPT !.pc = "done", !.result = r, !.line = l]

\* _detect_captcha: an indicator in the page content AND a matching element;
\* any exception gives False
DetectCaptcha(indicator, selector) == indicator /\ selector

\* a _handle_captcha that knows the navigation event only
HandleCaptchaNavOnly(navigated, text) == navigated

\* _handle_captcha: True on a navigation event, or when the challenge text is
\* gone from the content; False on the ceiling with the text present, when the
\* content cannot be read, and on any exception
HandleCaptcha(navigated, text) == navigated \/ text = "gone"

\* any(sig in content.lower() for sig in blocked_signals); unreadable content is ''
HasBlockSignal(content) == content = "blocked"

NavCall(mr, t) ==
    /\ nav.pc = "idle"
    /\ nav' = NavLoopHead([NavIdle EXCEPT !.max_retries = mr, !.timeout = t,
                                          !.current_timeout = t])

\* page.goto(...) returned
NavGotoOk ==
    /\ nav.pc = "goto"
    /\ nav' = [nav EXCEPT !.pc = "detect",
                          !.timeouts = Append(@, nav.current_timeout),
                          !.outcomes = Append(@, "ok")]

\* page.goto(...) raised asyncio.TimeoutError
NavAfterTimeout(n, j) ==
    NavLoopHead([n EXCEPT !.current_timeout = NextTimeout(@, j)])

NavGotoTimeout(j) ==
    /\ nav.pc = "goto"
    /\ nav' = NavAfterTimeout([nav EXCEPT !.timeouts = Append(@, nav.current_timeout),
                                          !.outcomes = Append(@, "timeout")], j)

\* page.goto(...) raised another exception
NavGotoError ==
    /\ nav.pc = "goto"
    /\ nav' = NavReturn([nav EXCEPT !.timeouts = Append(@, nav.current_timeout),
                                    !.outcomes = Append(@, "error")], "false", 292)

NavDetect(indicator, selector) ==
    /\ nav.pc = "detect"
    /\ nav' = IF DetectCaptcha(indicator, selector)
              THEN [nav EXCEPT !.pc = "handle", !.captcha = "detected"]
              ELSE [nav EXCEPT !.pc = "content"]

NavAfterCaptchaIgnore(n, handled) ==
    [n EXCEPT !.pc = "content", !.captcha = IF handled THEN "handled" ELSE "unhandled"]

NavAfterCaptcha(n, handled) ==
    IF handled THEN [n EXCEPT !.pc = "content", !.captcha = "handled"]
    ELSE NavReturn([n EXCEPT !.captcha = "unhandled"], "false", 239)

NavHandle(navigated, text) ==
    /\ nav.pc = "handle"
    /\ nav' = NavAfterCaptcha([nav EXCEPT !.nav_event = navigated,
                                           !.challenge_text = text],
                              HandleCaptcha(navigated, text))

NavAfterContent(n, content) ==
    IF HasBlockSignal(content)
    THEN [n EXCEPT !.pc = "remediate", !.block = "found"]
    ELSE NavReturn(n, "true", 275)

NavCheckBlock(content) ==
    /\ nav.pc = "content"
    /\ nav' = NavAfterContent(nav, content)

\* a remediation whose failure goes back to the retry loop
NavAfterReloadRetry(n, outcome) ==
    IF outcome = "clean"
    THEN NavReturn([n EXCEPT !.reload = outcome], "true", 266)
    ELSE NavLoopHead([n EXCEPT !.reload = outcome])

\* the one remediation: sleep, page.reload, read the content again.
\* outcome "raised": reload or content raised
NavAfterReload(n, outcome) ==
    IF outcome = "clean"
    THEN NavReturn([n EXCEPT !.reload = outcome], "true", 266)
    ELSE NavReturn([n EXCEPT !.reload = outcome], "false", 270)

NavRemediate(outcome) ==
    /\ nav.pc = "remediate"
    /\ nav' = NavAfterReload(nav, outcome)

\* the steps inside one call of navigate
NavSteps ==
    \/ NavGotoOk
    \/ \E j \in Jitters : NavGotoTimeout(j)
    \/ NavGotoError
    \/ \E i \in BOOLEAN, s \in BOOLEAN : NavDetect(i, s)
    \/ \E n \in BOOLEAN, t \in {"gone", "present", "unreadable"} : NavHandle(n, t)
    \/ \E c \in {"clean", "blocked", "unreadable"} : NavCheckBlock(c)
    \/ \E o \in {"clean", "blocked", "raised"} : NavRemediate(o)

NavNext ==
    \/ \E mr \in 0..MaxRetriesArg, t \in TimeoutArgs : NavCall(mr, t)
    \/ NavSteps

(***************************************************************************)
(* BrowserController.initialize / cleanup and LinkedInScraperApp.shutdown  *)
(***************************************************************************)
\* acquisition order of initialize; cleanup releases in the reverse order
Acquire == <<"engine", "browser", "context", "page">>
Release == <<"page", "context", "browser", "engine">>
CloseOutcomes == {"ok", "Exception", "CancelledError"}

MaxRunSteps == 2        \* workflows chosen from the menu in one run

SesInit ==
    [pc |-> "init", held |-> {}, log |-> <<>>, ci |-> 0,
     init_result |-> "none", propagated |-> FALSE,
     in_initialize |-> FALSE, init_log |-> <<>>, run |-> <<>>]

\* initialize: the next resource is acquired
SesAcquire ==
    /\ ses.pc = "init"
    /\ Cardinality(ses.held) < Len(Acquire)
    /\ ses' = [ses EXCEPT !.held = @ \cup {Acquire[Cardinality(ses.held) + 1]}]

\* initialize: all four acquired, stealth applied (its failures are swallowed)
SesInitDone ==
    /\ ses.pc = "init"
    /\ Cardinality(ses.held) = Len(Acquire)
    /\ ses' = [ses EXCEPT !.pc = "ready", !.init_result = "true"]

\* an initialize whose handler returns False without calling cleanup
SesInitFailNoCleanup ==
    /\ ses.pc = "init"
    /\ Cardinality(ses.held) < Len(Acquire)
    /\ ses' = [ses EXCEPT !.pc = "init_failed", !.init_result = "false"]

\* initialize: acquiring the next resource raised: cleanup, then return False
SesInitFail ==
    /\ ses.pc = "init"
    /\ Cardinality(ses.held) < Len(Acquire)
    /\ ses' = [ses EXCEPT !.pc = "cleanup", !.ci = 1, !.init_result = "false",
                           !.in_initialize = TRUE]

\* run: initialize returned False: 'Initialization failed', return, and the
\* finally clause calls shutdown, whose cleanup runs over the same fields
SesRunAbort ==
    /\ ses.pc = "init_failed"
    /\ ses' = [ses EXCEPT !.pc = "cleanup", !.ci = 1, !.log = <<>>]

\* run: login, the first step after a successful initialize
SesLogin(ok) ==
    /\ ses.pc = "ready"
    /\ ses.run = <<>>
    /\ ses' = [ses EXCEPT !.run = <<IF ok THEN "login" ELSE "login failed">>]

\* run: one workflow chosen from the menu
SesWorkflow ==
    /\ ses.pc = "ready"
    /\ ses.run # <<>> /\ ses.run[1] = "login"
    /\ Len(ses.run) <= MaxRunSteps
    /\ ses' = [ses EXCEPT !.run = Append(@, "workflow")]

\* LinkedInScraperApp.shutdown: cleanup of an initialized session, after a
\* failed login or on leaving the menu
SesShutdown ==
    /\ ses.pc = "ready"
    /\ ses.run # <<>>
    /\ ses' = [ses EXCEPT !.pc = "cleanup", !.ci = 1]

\* the handler around each close:  except (asyncio.CancelledError, Exception)
InnerCaughtExceptionOnly(o) == o = "Exception"

InnerCaught(o) == o \in {"Exception", "CancelledError"}

\* the handler around the whole body:  except Exception
OuterCaught(o) == o = "Exception"

\* where cleanup goes after the close of resource number i ended with outcome o
CleanupNext(i, o) ==
    IF o = "ok" \/ InnerCaught(o) THEN i + 1 ELSE Len(Release) + 1

\* does the exception leave cleanup?
CleanupPropagates(o) == o # "ok" /\ ~InnerCaught(o) /\ ~OuterCaught(o)

\* cleanup: one  if self.<resource>: try: await <resource>.close()  block
SesCleanupStep(o) ==
    /\ ses.pc = "cleanup"
    /\ ses.ci <= Len(Release)
    /\ IF Release[ses.ci] \in ses.held
       THEN ses' = [ses EXCEPT !.log = Append(@, <<Release[ses.ci], o>>),
                               !.ci = CleanupNext(ses.ci, o),
                               !.propagated = @ \/ CleanupPropagates(o)]
       ELSE ses' = [ses EXCEPT !.ci = @ + 1]

\* cleanup returns: to initialize's handler, which returns False, or to shutdown
SesCleanupDone ==
    /\ ses.pc = "cleanup"
    /\ ses.ci > Len(Release)
    /\ IF ses.in_initialize
       THEN ses' = [ses EXCEPT !.pc = "init_failed", !.in_initialize = FALSE,
                               !.init_log = ses.log]
       ELSE ses' = [ses EXCEPT !.pc = "closed"]

SesNext ==
    \/ SesAcquire
    \/ SesInitDone
    \/ SesInitFail
    \/ SesRunAbort
    \/ \E ok \in BOOLEAN : SesLogin(ok)
    \/ SesWorkflow
    \/ SesShutdown
    \/ \E o \in CloseOutcomes : SesCleanupStep(o)
    \/ SesCleanupDone

(***************************************************************************)
(* ScrapeAgent.scrape_profile  (src/agents/scrape_agent.py 24-132)         *)
(***************************************************************************)
\* page texts, word by word, as page.content() returns them
TextProfile == <<"Jane", "Doe", "Engineer">>
TextUnavailable == <<"This", "profile", "is", "not", "available">>
TextUnavailableBare == <<"Sorry", "profile", "is", "not", "available">>
TextPrivate == <<"Profile", "private">>
TextNotFound == <<"Page", "Not", "Found">>
TextUnreadable == <<>>      \* get_page_content returns "" when content() raises
PageTexts ==
    {TextProfile, TextUnavailable, TextUnavailableBare, TextPrivate,
     TextNotFound, TextUnreadable}

\* str.lower() on the words the texts use
LowerWord(w) ==
    CASE w = "This" -> "this" [] w = "Profile" -> "profile" [] w = "Sorry" -> "sorry"
      [] w = "Page" -> "page" [] w = "Not" -> "not" [] w = "Found" -> "found"
      [] w = "Jane" -> "jane" [] w = "Doe" -> "doe" [] w = "Engineer" -> "engineer"
      [] OTHER -> w

Lower(text) == [i \in 1..Len(text) |-> LowerWord(text[i])]

\* the access_issues denylist of _check_profile_access_issues
AccessIssues ==
    {<<"this", "profile", "is", "not", "available">>,
     <<"you", "cannot", "view", "this", "profile">>,
     <<"profile", "is", "not", "public">>,
     <<"profile", "private">>,
     <<"404", "error">>,
     <<"not", "found">>}

\* _check_profile_access_issues: any(issue.lower() in page_text ...)
CheckProfileAccessIssues(text) ==
    \E issue \in AccessIssues : Contains(Lower(text), Lower(issue))

Steps ==
    <<"Navigate", "DismissModal", "CheckAccess", "Scroll", "Extract",
      "ExpandSections", "ExtractContactInfo", "AttachContactInfo">>

SpIdle ==
    [pc |-> "idle", url |-> 0, trace |-> <<>>, nav_ok |-> FALSE, text |-> <<>>,
     extracted |-> FALSE, contact |-> "none", attached |-> FALSE, result |-> "none",
     nav_line |-> 0]

SpBegin(u) == [SpIdle EXCEPT !.pc = "Navigate", !.url = u]

SpRan(r, step) == [r EXCEPT !.trace = Append(@, step)]

SpReturn(r, res) == [r EXCEPT !.pc = "done", !.result = res]

\* a scrape_profile that goes on whatever navigate returned
SpAfterNavigateProceed(r, ok) == [r EXCEPT !.pc = "DismissModal", !.nav_ok = ok]

\* if not await self.browser.navigate(...): return None
SpAfterNavigate(r, ok) ==
    IF ok THEN [r EXCEPT !.pc = "DismissModal", !.nav_ok = TRUE]
    ELSE SpReturn(r, "no_record")

SpNavigate(ok) ==
    /\ sp.pc = "Navigate"
    /\ sp' = SpAfterNavigate(SpRan(sp, "Navigate"), ok)

\* the close-button selectors, first success wins, every failure is swallowed
SpDismissModal ==
    /\ sp.pc = "DismissModal"
    /\ sp' = [SpRan(sp, "DismissModal") EXCEPT !.pc = "CheckAccess"]

\* if await self._check_profile_access_issues(): return None
SpAfterCheckAccessIgnore(r, text) == [r EXCEPT !.pc = "Scroll", !.text = text]

SpAfterCheckAccess(r, text) ==
    IF CheckProfileAccessIssues(text)
    THEN SpReturn([r EXCEPT !.text = text], "no_record")
    ELSE [r EXCEPT !.pc = "Scroll", !.text = text]

SpCheckAccess(text) ==
    /\ sp.pc = "CheckAccess"
    /\ sp' = SpAfterCheckAccess(SpRan(sp, "CheckAccess"), text)

\* human_scroll, random_mouse_movement, random_delay: none of them raises
SpScroll ==
    /\ sp.pc = "Scroll"
    /\ sp' = [SpRan(sp, "Scroll") EXCEPT !.pc = "Extract"]

\* extract_complete_profile: a record, or None when the page text capture fails
SpAfterExtract(r, got) ==
    IF got THEN [r EXCEPT !.pc = "ExpandSections", !.extracted = TRUE]
    ELSE SpReturn(r, "no_record")

SpExtract(got) ==
    /\ sp.pc = "Extract"
    /\ sp' = SpAfterExtract(SpRan(sp, "Extract"), got)

\* _expand_all_sections swallows every failure
SpExpandSections ==
    /\ sp.pc = "ExpandSections"
    /\ sp' = [SpRan(sp, "ExpandSections") EXCEPT !.pc = "ExtractContactInfo"]

\* contact_info after lines 83-94: the result of _extract_contact_info
\* ("none", or a parsed dict), replaced by the page scan's dict ("page_url")
\* when it is None or has at most one key and the page scan finds a URL
ContactInfo(primary, page) ==
    IF primary = "none" /\ page # "none" THEN page ELSE primary

\* if contact_info: profile_data['contact_info'] = contact_info
SpAfterContact(r, c) ==
    IF c # "none" THEN [r EXCEPT !.pc = "AttachContactInfo", !.contact = c]
    ELSE SpReturn(r, "record")

SpExtractContactInfo(primary, page) ==
    /\ sp.pc = "ExtractContactInfo"
    /\ sp' = SpAfterContact(SpRan(sp, "ExtractContactInfo"), ContactInfo(primary, page))

SpAttachContactInfo ==
    /\ sp.pc = "AttachContactInfo"
    /\ sp' = SpReturn([SpRan(sp, "AttachContactInfo") EXCEPT !.attached = TRUE], "record")

\* the steps of scrape_profile after the navigation
SpSteps ==
    \/ SpDismissModal
    \/ \E text \in PageTexts : SpCheckAccess(text)
    \/ SpScroll
    \/ \E got \in BOOLEAN : SpExtract(got)
    \/ SpExpandSections
    \/ \E primary \in {"none", "parsed", "parse_error"}, page \in {"none", "page_url"} :
          SpExtractContactInfo(primary, page)
    \/ SpAttachContactInfo

SpNext ==
    \/ \E ok \in BOOLEAN : SpNavigate(ok)
    \/ SpSteps

\* what scrape_profile returns, as a function of what the environment answers
ScrapeProfileResult(ok, text, got) ==
    IF ok /\ ~CheckProfileAccessIssues(text) /\ got THEN "record" ELSE "no_record"

(***************************************************************************)
(* ScrapeAgent.scrape_multiple_profiles (src/agents/scrape_agent.py 326-359)*)
(***************************************************************************)
MaxBatch == 3       \* the batches have 0..MaxBatch profile URLs

BtIdle ==
    [pc |-> "idle", urls |-> <<>>, total |-> 0, i |-> 0, successful |-> 0,
     failed |-> 0, profiles |-> <<>>, delay_ok |-> TRUE, visited |-> <<>>,
     called |-> <<>>, delayed |-> <<>>, nav_lines |-> <<>>]

\* the  for i, profile_url in enumerate(profile_urls, 1)  head
BtLoopHead(b) ==
    IF b.i < Len(b.urls)
    THEN [b EXCEPT !.i = @ + 1, !.pc = "delay", !.visited = Append(@, b.urls[b.i + 1])]
    ELSE [b EXCEPT !.pc = "done"]

\* delay_ok: delay_range unpacks into (min, max); a malformed setting makes
\* _adaptive_delay raise
BtCall(n, dok) ==
    /\ bt.pc = "idle" /\ sp.pc = "idle"
    /\ bt' = BtLoopHead([BtIdle EXCEPT !.urls = [k \in 1..n |-> k], !.total = n,
                                       !.delay_ok = dok])
    /\ UNCHANGED sp

\* except Exception: results['failed'] += 1; continue
BtOnExceptionStop(b) == [b EXCEPT !.failed = @ + 1, !.pc = "done"]

BtOnException(b) == BtLoopHead([b EXCEPT !.failed = @ + 1])

\* if i > 1: await self._adaptive_delay(...), then the call of scrape_profile
BtDelay ==
    /\ bt.pc = "delay"
    /\ IF bt.i > 1 /\ ~bt.delay_ok
       THEN bt' = BtOnException(bt) /\ UNCHANGED sp
       ELSE /\ bt' = [bt EXCEPT !.pc = "scrape",
                                !.delayed = IF bt.i > 1 THEN Append(@, bt.i) ELSE @,
                                !.called = Append(@, bt.urls[bt.i])]
            /\ sp' = SpBegin(bt.urls[bt.i])

\* if profile_data: successful += 1, append  else: failed += 1
BtTally(b, res, u) ==
    IF res = "record"
    THEN [b EXCEPT !.successful = @ + 1, !.profiles = Append(@, u)]
    ELSE [b EXCEPT !.failed = @ + 1]

BtCollect ==
    /\ bt.pc = "scrape" /\ sp.pc = "done"
    /\ bt' = BtLoopHead([BtTally(bt, sp.result, sp.url)
                            EXCEPT !.nav_lines = Append(@, sp.nav_line)])
    /\ sp' = SpIdle

BtNext ==
    \/ \E n \in 0..MaxBatch, dok \in BOOLEAN : BtCall(n, dok)
    \/ BtDelay
    \/ BtCollect

ScrapeNext == (SpNext /\ UNCHANGED bt) \/ BtNext

(***************************************************************************)
(* scrape_multiple_profiles with the navigate of each scrape_profile       *)
(***************************************************************************)
ProfileNavRetries == 3          \* navigate(profile_url, ..., max_retries=3)
ProfileNavTimeout == 60000      \* navigate(profile_url, ..., timeout=60000)

\* scrape_profile calls self.browser.navigate
SpNavCall ==
    /\ sp.pc = "Navigate" /\ nav.pc = "idle"
    /\ nav' = NavLoopHead([NavIdle EXCEPT !.max_retries = ProfileNavRetries,
                                          !.timeout = ProfileNavTimeout,
                                          !.current_timeout = ProfileNavTimeout])
    /\ UNCHANGED <<sp, bt>>

\* navigate returned to scrape_profile
SpNavReturn ==
    /\ sp.pc = "Navigate" /\ nav.pc = "done"
    /\ sp' = [SpAfterNavigate(SpRan(sp, "Navigate"), nav.result = "true")
                 EXCEPT !.nav_line = nav.line]
    /\ nav' = NavIdle
    /\ UNCHANGED bt

BatchNavNext ==
    \/ BtNext /\ UNCHANGED nav
    \/ SpNavCall
    \/ NavSteps /\ UNCHANGED <<sp, bt>>
    \/ SpNavReturn
    \/ SpSteps /\ UNCHANGED <<nav, bt>>

(***************************************************************************)
(* DatabaseManager  (src/database/db_manager.py)                           *)
(***************************************************************************)
MaxIds == 2             \* the profile URLs are 1..MaxIds
MaxList == 3            \* add_profiles is called with lists of 0..MaxList URLs
MaxRetryCount == 3      \* no workflow starts once a retry_count has reached it
RetryCap == 3           \* WHERE status = 'pending' AND retry_count < 3

Ids == 1..MaxIds

Range(q) == {q[i] : i \in 1..Len(q)}

SeqsUpTo(S, n) == UNION {[1..k -> S] : k \in 0..n}

\* hashlib.md5(url.encode()).hexdigest(): distinct URLs have distinct digests
ProfileHash(url) == 1000 + url

\* the row INSERT creates: status 'pending', the other columns at their DEFAULT
NewRow(url) ==
    [profile_url |-> url, profile_hash |-> ProfileHash(url), status |-> "pending",
     data |-> 0, retry_count |-> 0, data_completeness |-> 0]

\* an INSERT that no UNIQUE constraint would ever reject
ConflictsNever(rows, url) == FALSE

\* UNIQUE(profile_url), UNIQUE(profile_hash): does the INSERT conflict?
Conflicts(rows, url) ==
    \E i \in 1..Len(rows) :
        rows[i].profile_url = url \/ rows[i].profile_hash = ProfileHash(url)

\* one iteration of add_profiles: INSERT OR IGNORE, counted when rowcount > 0
AddOneCountAll(acc, url) ==
    [rows |-> IF Conflicts(acc.rows, url) THEN acc.rows ELSE Append(acc.rows, NewRow(url)),
     added |-> acc.added + 1]

AddOne(acc, url) ==
    IF Conflicts(acc.rows, url) THEN acc
    ELSE [rows |-> Append(acc.rows, NewRow(url)), added |-> acc.added + 1]

RECURSIVE AddFrom(_, _, _)
AddFrom(acc, urls, k) ==
    IF k > Len(urls) THEN acc ELSE AddFrom(AddOne(acc, urls[k]), urls, k + 1)

\* add_profiles(profile_urls): the rows afterwards and the count returned
AddProfiles(rows, urls) == AddFrom([rows |-> rows, added |-> 0], urls, 1)

\* save_profile_data: UPDATE ... SET status = 'completed', data, data_completeness
SaveProfileData(rows, url, data, completeness) ==
    [i \in 1..Len(rows) |->
        IF rows[i].profile_url = url
        THEN [rows[i] EXCEPT !.status = "completed", !.data = data,
                             !.data_completeness = completeness]
        ELSE rows[i]]

\* an update that counts the failure and leaves the status as it was
MarkProfileRetried(rows, url) ==
    [i \in 1..Len(rows) |->
        IF rows[i].profile_url = url
        THEN [rows[i] EXCEPT !.retry_count = @ + 1]
        ELSE rows[i]]

\* mark_profile_failed: UPDATE ... SET status = 'failed', retry_count + 1
MarkProfileFailed(rows, url) ==
    [i \in 1..Len(rows) |->
        IF rows[i].profile_url = url
        THEN [rows[i] EXCEPT !.status = "failed", !.retry_count = @ + 1]
        ELSE rows[i]]

\* is_profile_scraped
IsProfileScraped(rows, url) ==
    \E i \in 1..Len(rows) : rows[i].profile_url = url /\ rows[i].status = "completed"

IsPendingRow(row) == row.status = "pending" /\ row.retry_count < RetryCap

\* get_pending_profiles(limit): ... ORDER BY created_at LIMIT ?
GetPendingProfiles(rows, limit) ==
    LET pending == SelectSeq(rows, IsPendingRow)
        urls == [i \in 1..Len(pending) |-> pending[i].profile_url]
    IN  IF Len(urls) <= limit THEN urls ELSE SubSeq(urls, 1, limit)

\* cleanup_old_data(days): DELETE the failed rows created before the cutoff,
\* which are the failed rows among the k oldest
RECURSIVE DeleteOld(_, _, _)
DeleteOld(rows, k, i) ==
    IF i > Len(rows) THEN <<>>
    ELSE IF i <= k /\ rows[i].status = "failed" THEN DeleteOld(rows, k, i + 1)
    ELSE <<rows[i]>> \o DeleteOld(rows, k, i + 1)

CleanupOldData(rows, k) == DeleteOld(rows, k, 1)

NoCall == [op |-> "none", urls |-> <<>>, ret |-> 0, pre |-> <<>>]

DbInit == [rows |-> <<>>, last |-> NoCall]

\* the table after a call that is not add_profiles
DbWrite(rows) == [rows |-> rows, last |-> NoCall]

DbAfterAdd(d, urls) ==
    LET r == AddProfiles(d.rows, urls)
    IN  [rows |-> r.rows,
         last |-> [op |-> "add_profiles", urls |-> urls, ret |-> r.added, pre |-> d.rows]]

RetryOf(rows, url) ==
    IF \E i \in 1..Len(rows) : rows[i].profile_url = url
    THEN (CHOOSE r \in Range(rows) : r.profile_url = url).retry_count
    ELSE 0

BelowRetryBound == \A r \in Range(db.rows) : r.retry_count < MaxRetryCount

(***************************************************************************)
(* The workflows of LinkedInScraperApp (src/main.py 158-352) and           *)
(* ConnectionsAgent.scrape_connection_profiles.                            *)
(***************************************************************************)
MaxFound == 2           \* a discovery run returns 0..MaxFound URLs

\* lists without duplicates, as the discovery agents return them
FoundLists ==
    {q \in SeqsUpTo(Ids, MaxFound) : \A i, j \in 1..Len(q) : q[i] = q[j] => i = j}

\* what the environment answers during one scrape_profile call: navigate's
\* result, the page text, whether extraction got the page text, and the
\* completeness extract_complete_profile computed
ScrapeEnvs ==
    {[nav_ok |-> FALSE, text |-> TextUnreadable, got |-> FALSE, completeness |-> 0],
     [nav_ok |-> TRUE, text |-> TextProfile, got |-> FALSE, completeness |-> 0],
     [nav_ok |-> TRUE, text |-> TextProfile, got |-> TRUE, completeness |-> 42],
     [nav_ok |-> TRUE, text |-> TextUnavailable, got |-> TRUE, completeness |-> 0],
     [nav_ok |-> TRUE, text |-> TextUnavailableBare, got |-> TRUE, completeness |-> 14]}

ScrapeResult(env) == ScrapeProfileResult(env.nav_ok, env.text, env.got)

WfIdle ==
    [kind |-> "idle", pc |-> "idle", urls |-> <<>>, i |-> 0, envs |-> <<>>,
     results |-> <<>>, pre |-> <<>>, scraped |-> 0, skipped |-> 0, failed |-> 0,
     reported |-> <<>>]

WfBegin(kind, urls, rows) ==
    [WfIdle EXCEPT !.kind = kind, !.pc = "scrape", !.urls = urls, !.pre = rows]

\* workflow_search_and_scrape, one query: search_profiles found `urls`;
\* lines 180-185: nothing found skips the query, else add_profiles
WfSearchStart(urls) ==
    /\ wf.pc = "idle" /\ BelowRetryBound
    /\ IF urls = <<>>
       THEN /\ wf' = [WfIdle EXCEPT !.kind = "search", !.pc = "finished", !.pre = db.rows]
            /\ UNCHANGED db
       ELSE /\ db' = DbAfterAdd(db, urls)
            /\ wf' = WfBegin("search", urls, db'.rows)

\* one iteration of scrape_multiple_profiles inside a workflow
WfScraped(w, env) ==
    [w EXCEPT !.i = @ + 1, !.envs = Append(@, env),
              !.results = Append(@, ScrapeResult(env))]

WfSearchScrape(env) ==
    /\ wf.kind = "search" /\ wf.pc = "scrape" /\ wf.i < Len(wf.urls)
    /\ wf' = WfScraped(wf, env)
    /\ UNCHANGED db

\* lines 195-207: save every record returned, then mark every URL that is not
\* among the records as failed
RECURSIVE SearchMark(_, _, _, _)
SearchMark(rows, w, k, saving) ==
    IF k > Len(w.urls) THEN (IF saving THEN SearchMark(rows, w, 1, FALSE) ELSE rows)
    ELSE IF saving
    THEN SearchMark(IF w.results[k] = "record"
                    THEN SaveProfileData(rows, w.urls[k], w.urls[k],
                                         w.envs[k].completeness * 10)
                    ELSE rows, w, k + 1, TRUE)
    ELSE SearchMark(IF w.results[k] # "record"
                    THEN MarkProfileFailed(rows, w.urls[k])
                    ELSE rows, w, k + 1, FALSE)

WfSearchMark ==
    /\ wf.kind = "search" /\ wf.pc = "scrape" /\ wf.i = Len(wf.urls)
    /\ db' = DbWrite(SearchMark(db.rows, wf, 1, TRUE))
    /\ wf' = [wf EXCEPT !.pc = "finished"]

\* scrape_connection_profiles: collect_connection_profiles found `urls`
WfConnectionsStart(urls) ==
    /\ wf.pc = "idle" /\ BelowRetryBound
    /\ IF urls = <<>>
       THEN /\ wf' = [WfIdle EXCEPT !.kind = "connections", !.pc = "finished",
                                    !.pre = db.rows]
            /\ UNCHANGED db
       ELSE /\ db' = DbAfterAdd(db, urls)
            /\ wf' = WfBegin("connections", urls, db'.rows)

\* completeness = 0.8, in tenths of a percent like every stored completeness
ConnectionsCompleteness == 8

\* what one turn of the loop (lines 223-252) comes to.  reported is the
\* answer of is_profile_scraped; raises tells whether a database call of the
\* turn raised: "check" is_profile_scraped, "save" save_profile_data before
\* its UPDATE.  scrape_profile is called in the outcomes "record",
\* "save_error" and "no_record"
ConnectionsOutcome(reported, raises, env) ==
    IF raises = "check" THEN "error"
    ELSE IF reported THEN "skipped"
    ELSE IF ScrapeResult(env) # "record" THEN "no_record"
    ELSE IF raises = "save" THEN "save_error"
    ELSE "record"

\* a tally that counts a record whose save raised as scraped and as failed
ConnectionsTallyBoth(w, outcome) ==
    IF outcome = "skipped" THEN [w EXCEPT !.skipped = @ + 1]
    ELSE IF outcome = "record" THEN [w EXCEPT !.scraped = @ + 1]
    ELSE IF outcome = "save_error" THEN [w EXCEPT !.scraped = @ + 1, !.failed = @ + 1]
    ELSE [w EXCEPT !.failed = @ + 1]

\* skipped_count += 1 (230), scraped_count += 1 (240), failed_count += 1 (243
\* and, in the handler of the turn, 251)
ConnectionsTally(w, outcome) ==
    IF outcome = "skipped" THEN [w EXCEPT !.skipped = @ + 1]
    ELSE IF outcome = "record" THEN [w EXCEPT !.scraped = @ + 1]
    ELSE [w EXCEPT !.failed = @ + 1]

\* lines 223-252, one URL: skip when already scraped, else scrape and save
WfConnectionsStep(env, raises) ==
    /\ wf.kind = "connections" /\ wf.pc = "scrape" /\ wf.i < Len(wf.urls)
    /\ LET url == wf.urls[wf.i + 1]
           reported == IsProfileScraped(db.rows, url)
           outcome == ConnectionsOutcome(reported, raises, env)
       IN  /\ wf' = ConnectionsTally([wf EXCEPT !.i = @ + 1,
                                                !.envs = Append(@, env),
                                                !.results = Append(@, outcome),
                                                !.reported = Append(@, reported)],
                                     outcome)
           /\ db' = IF outcome = "record"
                    THEN DbWrite(SaveProfileData(db.rows, url, url,
                                                 ConnectionsCompleteness))
                    ELSE db

\* workflow_resume(limit): the pending URLs are scraped; nothing is stored
WfResumeStart(limit) ==
    /\ wf.pc = "idle"
    /\ LET pending == GetPendingProfiles(db.rows, limit) IN
       wf' = IF pending = <<>>
             THEN [WfIdle EXCEPT !.kind = "resume", !.pc = "finished", !.pre = db.rows]
             ELSE WfBegin("resume", pending, db.rows)
    /\ UNCHANGED db

WfResumeScrape(env) ==
    /\ wf.kind = "resume" /\ wf.pc = "scrape" /\ wf.i < Len(wf.urls)
    /\ wf' = WfScraped(wf, env)
    /\ UNCHANGED db

\* the end of the loop of scrape_connection_profiles and of workflow_resume
WfLoopEnd ==
    /\ wf.kind \in {"connections", "resume"} /\ wf.pc = "scrape" /\ wf.i = Len(wf.urls)
    /\ wf' = [wf EXCEPT !.pc = "finished"]
    /\ UNCHANGED db

\* the workflow returns to the menu of run()
WfReturn ==
    /\ wf.pc = "finished"
    /\ wf' = WfIdle
    /\ UNCHANGED db

\* menu choice 6, cleanup_data
WfCleanupOldData(k) ==
    /\ wf.pc = "idle"
    /\ db' = DbWrite(CleanupOldData(db.rows, k))
    /\ UNCHANGED wf

\* a call of add_profiles with any list of URLs
DbEnqueue(urls) ==
    /\ wf.pc = "idle"
    /\ db' = DbAfterAdd(db, urls)
    /\ UNCHANGED wf

StoreNext ==
    \/ \E urls \in FoundLists : WfSearchStart(urls)
    \/ \E env \in ScrapeEnvs : WfSearchScrape(env)
    \/ WfSearchMark
    \/ \E urls \in FoundLists : WfConnectionsStart(urls)
    \/ \E env \in ScrapeEnvs, raises \in {"none", "check", "save"} :
          WfConnectionsStep(env, raises)
    \/ \E limit \in 1..MaxIds : WfResumeStart(limit)
    \/ \E env \in ScrapeEnvs : WfResumeScrape(env)
    \/ WfLoopEnd
    \/ WfReturn
    \/ \E k \in 1..MaxIds : WfCleanupOldData(k)
    \/ \E urls \in SeqsUpTo(Ids, MaxList) : DbEnqueue(urls)

(***************************************************************************)
(* SearchAgent.search_profiles (src/agents/search_agent.py 23-135) and     *)
(* ConnectionsAgent.collect_connection_profiles (connections_agent.py      *)
(* 68-195).  Links are numbers; a listing page is the list of its anchors. *)
(***************************************************************************)
MaxRequested == 2       \* max_results ranges over 0..MaxRequested, and 25
MaxLink == 2            \* an arbitrary listing page links to profiles 1..MaxLink
MaxAnchors == 2         \* and has 0..MaxAnchors profile anchors
ScenarioRequested == 25 \* the scenario: 25 requested,
ScenarioPerPage == 9    \* 9 new links on every page
RoundRequested == 10    \* a requested count that is a multiple of 10

\* the anchors of a page with ScenarioPerPage links no earlier page had
FreshPage(p) == [k \in 1..ScenarioPerPage |-> 100 + ScenarioPerPage * (p - 1) + k]

SmallPages == SeqsUpTo(1..MaxLink, MaxAnchors)

\* [...new Set(profileLinks)]: first occurrences, in order
RECURSIVE Dedup(_)
Dedup(q) ==
    IF q = <<>> THEN <<>>
    ELSE LET front == Dedup(SubSeq(q, 1, Len(q) - 1))
         IN  IF Last(q) \in Range(front) THEN front ELSE Append(front, Last(q))

\* if link not in profile_urls and len(profile_urls) < max_results: append
CollectOneNoDedup(urls, link, max_results) ==
    IF Len(urls) < max_results THEN Append(urls, link) ELSE urls

CollectOne(urls, link, max_results) ==
    IF link \notin Range(urls) /\ Len(urls) < max_results THEN Append(urls, link) ELSE urls

RECURSIVE CollectFrom(_, _, _, _)
CollectFrom(urls, links, max_results, k) ==
    IF k > Len(links) THEN urls
    ELSE CollectFrom(CollectOne(urls, links[k], max_results), links, max_results, k + 1)

\* for link in links: ...
Collect(urls, links, max_results) == CollectFrom(urls, links, max_results, 1)

\* max_pages = (max_results // 10) + 2
MaxPages(max_results) == (max_results \div 10) + 2

\* profile_urls[:max_results]
Take(q, n) == IF Len(q) <= n THEN q ELSE SubSeq(q, 1, n)

\* SearchAgent._navigate_to_next_page: True when the Next button is found
SearchHasNext(button, disabled, clicked) == button

\* ConnectionsAgent._navigate_to_next_page: found, not disabled, click succeeded
ConnectionsHasNext(button, disabled, clicked) == button /\ ~disabled /\ clicked

HasNext(agent, button, disabled, clicked) ==
    IF agent = "search" THEN SearchHasNext(button, disabled, clicked)
    ELSE ConnectionsHasNext(button, disabled, clicked)

DiscIdle ==
    [pc |-> "idle", agent |-> "none", max_results |-> 0, page |-> 0, max_pages |-> 0,
     profile_urls |-> <<>>, pages_done |-> 0, fresh_pages |-> 0, returned |-> <<>>,
     stop |-> "none"]

\* the  while len(profile_urls) < max_results and page <= max_pages  head, and
\* the  return profile_urls[:max_results]  after the loop
DiscLoopHead(d) ==
    IF Len(d.profile_urls) < d.max_results /\ d.page <= d.max_pages
    THEN [d EXCEPT !.pc = "page"]
    ELSE [d EXCEPT !.pc = "done", !.returned = Take(d.profile_urls, d.max_results),
                   !.stop = IF Len(d.profile_urls) < d.max_results
                            THEN "page cap" ELSE "count"]

\* the call, and the navigation to the listing; a failed navigation returns []
DiscCall(agent, max_results, nav_ok) ==
    /\ disc.pc = "idle"
    /\ LET d == [DiscIdle EXCEPT !.agent = agent, !.max_results = max_results,
                                 !.page = 1, !.max_pages = MaxPages(max_results)]
       IN  disc' = IF nav_ok THEN DiscLoopHead(d)
                   ELSE [d EXCEPT !.pc = "done", !.stop = "navigation"]

\* one pass of the loop: scroll, extract the links of the page, collect them,
\* look for the next page
DiscAfterPage(d, anchors, has_next) ==
    LET got == [d EXCEPT !.profile_urls = Collect(@, Dedup(anchors), d.max_results),
                         !.pages_done = @ + 1,
                         !.fresh_pages = IF anchors = FreshPage(d.pages_done + 1)
                                            /\ d.fresh_pages = d.pages_done
                                         THEN @ + 1 ELSE @]
    IN  IF has_next THEN DiscLoopHead([got EXCEPT !.page = @ + 1])
        ELSE [got EXCEPT !.pc = "done", !.stop = "no next",
                         !.returned = Take(got.profile_urls, d.max_results)]

DiscPage(anchors, button, disabled, clicked) ==
    /\ disc.pc = "page"
    /\ disc' = DiscAfterPage(disc, anchors, HasNext(disc.agent, button, disabled, clicked))

DiscNext ==
    \/ \E agent \in {"search", "connections"},
          max_results \in (0..MaxRequested) \cup {RoundRequested, ScenarioRequested},
          nav_ok \in BOOLEAN : DiscCall(agent, max_results, nav_ok)
    \/ \E anchors \in SmallPages \cup {FreshPage(disc.pages_done + 1)},
          button \in BOOLEAN, disabled \in BOOLEAN, clicked \in BOOLEAN :
          DiscPage(anchors, button, disabled, clicked)

(***************************************************************************)
(* ValidationAgent  (src/agents/validation_agent.py).  A string is the     *)
(* sequence of its characters, a character one of: a letter "a", a digit   *)
(* "9", a blank " ", anything else "-".  A URL is the sequence of its      *)
(* parts.  A field of profile_data is [present, value]; a list-valued      *)
(* field also records whether its value is a list.                         *)
(***************************************************************************)
MaxNameLen == 3         \* the names are all strings of 0..MaxNameLen characters,
                        \* and two long ones

MaxValidNameLen == 200  \* if len(name) > 200: return False

MIN_ABOUT_LENGTH == 20

Chars == {"a", "9", " ", "-"}

Letters(n) == [i \in 1..n |-> "a"]

Names == SeqsUpTo(Chars, MaxNameLen) \cup {Letters(MaxValidNameLen), Letters(MaxValidNameLen + 1)}

Absent == [present |-> FALSE, value |-> <<>>]

Given(v) == [present |-> TRUE, value |-> v]

LinkedInPrefix == <<"https://", "www.linkedin.com">>

ProfileUrls ==
    {<<>>, LinkedInPrefix \o <<"/in/jane">>, <<"http://", "www.linkedin.com", "/in/jane">>,
     <<"https://", "example.com">>}

Abouts == {<<>>, Letters(MIN_ABOUT_LENGTH - 1), Letters(MIN_ABOUT_LENGTH)}

\* the value of experience or skills: a list, or a string
ListValues ==
    {[is_list |-> TRUE, items |-> <<>>], [is_list |-> TRUE, items |-> <<"x">>],
     [is_list |-> FALSE, items |-> <<"x">>]}

Opt(S) == {Absent} \cup {Given(v) : v \in S}

\* profile_data; others = how many of headline, location, education,
\* certifications, projects are filled
ProfileDatas ==
    [profile_url : Opt(ProfileUrls), name : Opt(Names), about : Opt(Abouts),
     experience : Opt(ListValues), skills : Opt(ListValues), others : {0, 5}]

\* field in profile_data and profile_data[field]
Filled(f) == f.present /\ f.value # <<>>

\* the same for experience and skills
FilledList(f) == f.present /\ f.value.items # <<>>

\* str.strip()
RECURSIVE LStrip(_)
LStrip(s) == IF s # <<>> /\ Head(s) = " " THEN LStrip(Tail(s)) ELSE s

RECURSIVE RStrip(_)
RStrip(s) ==
    IF s # <<>> /\ Last(s) = " " THEN RStrip(SubSeq(s, 1, Len(s) - 1)) ELSE s

Strip(s) == RStrip(LStrip(s))

Count(s, c) == Cardinality({i \in 1..Len(s) : s[i] = c})

\* _is_valid_name, for a str
IsValidName(name) ==
    LET n == Strip(name) IN
    /\ ~(Len(n) < 2)
    /\ ~(Len(n) > MaxValidNameLen)
    /\ \E i \in 1..Len(n) : n[i] = "a"
    /\ ~(10 * Count(n, "9") > 3 * Len(n))

\* _calculate_completeness: round(filled / 9 * 100, 2), in hundredths
ValidationCompleteness(pd) ==
    LET filled == pd.others
                  + Cardinality({f \in {"name", "about"} : Filled(pd[f])})
                  + Cardinality({f \in {"experience", "skills"} : FilledList(pd[f])})
    IN  (2 * filled * 10000 + 9) \div 18

\* a check of the required fields that knows only profile_url
MissingRequiredUrlOnly(pd) == {f \in {"profile_url"} : ~Filled(pd[f])}

\* the REQUIRED_FIELDS that are missing or empty
MissingRequired(pd) == {f \in {"profile_url", "name"} : ~Filled(pd[f])}

NameFormatFired(pd) == Filled(pd.name) /\ ~IsValidName(pd.name.value)

UrlFormatFired(pd) ==
    Filled(pd.profile_url) /\ ~IsPrefix(LinkedInPrefix, pd.profile_url.value)

\* an about check that also fires when there is no about section
ShortAboutOrNone(pd) == ~Filled(pd.about) \/ Len(pd.about.value) < MIN_ABOUT_LENGTH

ShortAboutFired(pd) == Filled(pd.about) /\ Len(pd.about.value) < MIN_ABOUT_LENGTH

ListFormatFired(f) == FilledList(f) /\ ~f.value.is_list

Max(a, b) == IF a >= b THEN a ELSE b

\* report['score'] = max(0, report['score'])
ScoreFloor(s) == Max(0, s)

\* validate_profile: the report returned
ValidateProfile(pd) ==
    LET missing == MissingRequired(pd)
    IN  [is_valid |-> missing = {} /\ ~UrlFormatFired(pd),
         errors |-> {<<"Missing required field", f>> : f \in missing}
                    \cup (IF UrlFormatFired(pd) THEN {<<"Invalid LinkedIn URL">>} ELSE {})
                    \cup (IF ListFormatFired(pd.experience)
                          THEN {<<"Invalid experience format">>} ELSE {})
                    \cup (IF ListFormatFired(pd.skills)
                          THEN {<<"Invalid skills format">>} ELSE {}),
         warnings |-> (IF NameFormatFired(pd) THEN {"Invalid name format"} ELSE {})
                      \cup (IF ShortAboutFired(pd) THEN {"Very short about section"} ELSE {}),
         score |-> ScoreFloor(100 - 20 * Cardinality(missing)
                              - (IF NameFormatFired(pd) THEN 5 ELSE 0)
                              - (IF UrlFormatFired(pd) THEN 20 ELSE 0)
                              - (IF ShortAboutFired(pd) THEN 10 ELSE 0)
                              - (IF ListFormatFired(pd.experience) THEN 10 ELSE 0)
                              - (IF ListFormatFired(pd.skills) THEN 10 ELSE 0)),
         data_completeness |-> ValidationCompleteness(pd)]

ValIdle == [pc |-> "idle"]

ValCall(pd) ==
    /\ val.pc = "idle"
    /\ val' = [pc |-> "done", profile_data |-> pd, report |-> ValidateProfile(pd)]

ValReturn ==
    /\ val.pc = "done"
    /\ val' = ValIdle

ValNext ==
    \/ val.pc = "idle" /\ \E pd \in ProfileDatas : ValCall(pd)
    \/ ValReturn

(***************************************************************************)
(* DataExtractor.extract_complete_profile  (src/scraper/data_extractor.py  *)
(* 26-74) and _calculate_completeness (860-881).  A field value is         *)
(* "value" (a non-empty string or list) or "absent" (None or []).          *)
(***************************************************************************)
\* the extractors in the order extract_complete_profile calls them
Extractors ==
    <<"name", "headline", "location", "about", "experience", "education",
      "skills", "certifications", "projects", "languages", "recommendations">>

\* the fields[] of _calculate_completeness
CompletenessFields ==
    <<"name", "headline", "location", "about", "experience", "education", "skills">>

\* what a strategy of an extractor does: finds a value, finds nothing, raises
Answers == {"value", "none", "raise"}

\* what page.evaluate (js) and the text parsing (text) answer to one extractor
ExtractorEnvs(f) ==
    IF f \in {"name", "headline", "location"} THEN [js : Answers, text : Answers]
    ELSE IF f = "recommendations" THEN [js : Answers, text : {"none"}]
    ELSE [js : {"none"}, text : Answers]

\* the text fallbacks catch everything and return None
Fallback(o) == IF o.text = "value" THEN "value" ELSE "absent"

\* an extractor whose exception is not caught gives no value back
ExtractFieldUncaught(f, o) ==
    IF f = "name"
    THEN [value |-> IF "value" \in {o.text, o.js} THEN "value" ELSE "absent",
          raised |-> FALSE, escaped |-> o.text # "value" /\ o.js = "raise"]
    ELSE [value |-> IF "value" \in {o.text, o.js} THEN "value" ELSE "absent",
          raised |-> FALSE, escaped |-> "raise" \in {o.text, o.js}]

\* _extract_<f>(page, all_text): the value returned, whether the try block
\* raised, and whether an exception left the extractor
ExtractField(f, o) ==
    IF f = "name"
    THEN \* the text fallback first, then page.evaluate; except: the fallback
         [value |-> IF Fallback(o) = "value" \/ o.js = "value" THEN "value" ELSE "absent",
          raised |-> Fallback(o) # "value" /\ o.js = "raise", escaped |-> FALSE]
    ELSE IF f \in {"headline", "location"}
    THEN \* page.evaluate first; no value or except: the text fallback
         [value |-> IF o.js = "value" THEN "value" ELSE Fallback(o),
          raised |-> o.js = "raise", escaped |-> FALSE]
    ELSE IF f = "recommendations"
    THEN [value |-> IF o.js = "value" THEN "value" ELSE "absent",
          raised |-> o.js = "raise", escaped |-> FALSE]
    ELSE [value |-> IF o.text = "value" THEN "value" ELSE "absent",
          raised |-> o.text = "raise", escaped |-> FALSE]

RECURSIVE FilledFrom(_, _, _)
FilledFrom(pd, fields, k) ==
    IF k > Len(fields) THEN 0
    ELSE (IF pd[fields[k]] = "value" THEN 1 ELSE 0) + FilledFrom(pd, fields, k + 1)

\* a completeness over nine fields, as ValidationAgent computes it
CalculateCompletenessOfNine(pd) ==
    (FilledFrom(pd, CompletenessFields, 1) * 100) \div 9

\* _calculate_completeness: int((filled / len(fields)) * 100)
CalculateCompleteness(pd) ==
    (FilledFrom(pd, CompletenessFields, 1) * 100) \div Len(CompletenessFields)

NoValues == [f \in Range(Extractors) |-> "absent"]

ExIdle ==
    [pc |-> "idle", all_text |-> "none", k |-> 0, profile_data |-> NoValues,
     raised |-> {}, saved |-> {}, ran |-> <<>>, completeness |-> 0,
     result |-> "none"]

\* lines 32-36: all_text = _extract_all_with_js(page), which returns None when
\* page.evaluate raises or the page has no text
ExCapture(answer) ==
    /\ ex.pc = "idle"
    /\ ex' = IF answer = "value"
             THEN [ex EXCEPT !.pc = "extract", !.all_text = "value"]
             ELSE [ex EXCEPT !.pc = "done", !.all_text = answer, !.result = "no record"]

\* the state after the extractor of field f has returned r
ExAfterField(e, f, r) ==
    IF r.escaped
    THEN [e EXCEPT !.pc = "done", !.ran = Append(@, f), !.result = "no record"]
    ELSE [e EXCEPT !.k = @ + 1, !.ran = Append(@, f),
                   !.profile_data[f] = r.value,
                   !.raised = IF r.raised THEN @ \cup {f} ELSE @,
                   !.saved = IF r.raised /\ r.value = "value" THEN @ \cup {f} ELSE @]

\* lines 45-62: profile_data[f] = await self._extract_<f>(page, all_text)
ExExtract(o) ==
    /\ ex.pc = "extract" /\ ex.k < Len(Extractors)
    /\ LET f == Extractors[ex.k + 1] IN
       /\ o \in ExtractorEnvs(f)
       /\ ex' = ExAfterField(ex, f, ExtractField(f, o))

\* lines 64-70: the completeness score, and the record is returned
ExFinish ==
    /\ ex.pc = "extract" /\ ex.k = Len(Extractors)
    /\ ex' = [ex EXCEPT !.pc = "done", !.result = "record",
                        !.completeness = CalculateCompleteness(ex.profile_data)]

ExReturn ==
    /\ ex.pc = "done"
    /\ ex' = ExIdle

ExNext ==
    \/ \E answer \in Answers : ExCapture(answer)
    \/ \E o \in [js : Answers, text : Answers] : ExExtract(o)
    \/ ExFinish
    \/ ExReturn

(***************************************************************************)
(* HumanBehavior.random_delay  (src/scraper/human_behavior.py 21-29).      *)
(* min_seconds and max_seconds are whole seconds; a duration is counted in *)
(* quarters of a second, so that 1.5 * max and the midpoint of every       *)
(* interval are integers.  random.random() is r / 10, and the variate      *)
(* behind random.uniform is u / 2.                                         *)
(***************************************************************************)
MaxSeconds == 4         \* min_seconds and max_seconds range over 0..MaxSeconds

RandomTenths == 0..9

UniformHalves == 0..2

\* random.uniform(a, b) = a + (b - a) * random(), a and b in quarters
Uniform(a, b, u) == a + ((b - a) * u) \div 2

\* a long pause drawn from max * 1.5 .. max * 3
LongPauseTriple(max_seconds, u) == Uniform(6 * max_seconds, 12 * max_seconds, u)

\* random.uniform(max_seconds * 1.5, max_seconds * 2.5)
LongPause(max_seconds, u) == Uniform(6 * max_seconds, 10 * max_seconds, u)

\* random.uniform(min_seconds, max_seconds)
ShortPause(min_seconds, max_seconds, u) == Uniform(4 * min_seconds, 4 * max_seconds, u)

HbIdle ==
    [pc |-> "idle", min_seconds |-> 0, max_seconds |-> 0, branch |-> "none",
     delay |-> 0, draws |-> 0, slept |-> <<>>]

\* random_delay(min_seconds, max_seconds) up to the sleep
HbCall(min_seconds, max_seconds, r, u) ==
    /\ hb.pc = "idle"
    /\ LET long == r < 2     \* random.random() < 0.2
           delay == IF long THEN LongPause(max_seconds, u)
                    ELSE ShortPause(min_seconds, max_seconds, u)
       IN  hb' = [pc |-> "sleep", min_seconds |-> min_seconds,
                  max_seconds |-> max_seconds,
                  branch |-> IF long THEN "long" ELSE "short",
                  delay |-> delay, draws |-> 1, slept |-> <<>>]

\* await asyncio.sleep(delay)
HbSleep ==
    /\ hb.pc = "sleep"
    /\ hb' = [hb EXCEPT !.pc = "done", !.slept = Append(@, hb.delay)]

HbReturn ==
    /\ hb.pc = "done"
    /\ hb' = HbIdle

HbNext ==
    \/ \E min_seconds, max_seconds \in 0..MaxSeconds, r \in RandomTenths,
          u \in UniformHalves : HbCall(min_seconds, max_seconds, r, u)
    \/ HbSleep
    \/ HbReturn

(***************************************************************************)
(* DataExtractor._extract_experience  (src/scraper/data_extractor.py       *)
(* 344-383).  all_text.split('\n') is a sequence of lines and a line is    *)
(* the sequence of its characters.                                         *)
(***************************************************************************)
MaxLines == 4           \* the page texts are all texts of 0..MaxLines lines of
                        \* SomeLines, and the text of the scenario

\* "Experience"
LineExperience ==
    <<"E", "x", "p", "e", "r", "i", "e", "n", "c", "e">>

\* "Senior Engineer"
LineSeniorEngineer ==
    <<"S", "e", "n", "i", "o", "r", " ", "E", "n", "g", "i", "n", "e", "e",
      "r">>

\* "Acme Inc, 2020-2023"
LineAcme ==
    <<"A", "c", "m", "e", " ", "I", "n", "c", ",", " ", "2", "0", "2", "0",
      "-", "2", "0", "2", "3">>

\* "Built systems"
LineBuiltSystems ==
    <<"B", "u", "i", "l", "t", " ", "s", "y", "s", "t", "e", "m", "s">>

\* "Education"
LineEducation ==
    <<"E", "d", "u", "c", "a", "t", "i", "o", "n">>

\* "2021"
LineYear ==
    <<"2", "0", "2", "1">>

\* "http://acme.example/jobs"
LineLink ==
    <<"h", "t", "t", "p", ":", "/", "/", "a", "c", "m", "e", ".", "e", "x",
      "a", "m", "p", "l", "e", "/", "j", "o", "b", "s">>

LineEmpty == <<>>

SomeLines ==
    {LineExperience, LineSeniorEngineer, LineAcme, LineBuiltSystems,
     LineEducation, LineYear, LineLink, LineEmpty}

ScenarioLines ==
    <<LineExperience, LineSeniorEngineer, LineAcme, LineBuiltSystems, LineEducation>>

PageLines == SeqsUpTo(SomeLines, MaxLines) \cup {ScenarioLines}

\* str.lower() on the capitals these lines use
UpperLetters ==
    <<"A", "B", "C", "D", "E", "F", "G", "H", "I",
      "J", "K", "L", "M", "N", "O", "P", "Q", "R",
      "S", "T", "U", "V", "W", "X", "Y", "Z">>

LowerLetters ==
    <<"a", "b", "c", "d", "e", "f", "g", "h", "i",
      "j", "k", "l", "m", "n", "o", "p", "q", "r",
      "s", "t", "u", "v", "w", "x", "y", "z">>

LowerChar(c) ==
    IF \E k \in 1..26 : UpperLetters[k] = c
    THEN LowerLetters[CHOOSE k \in 1..26 : UpperLetters[k] = c]
    ELSE c

LowerLine(line) == [i \in 1..Len(line) |-> LowerChar(line[i])]

Digits == {"0", "1", "2", "3", "4", "5", "6", "7", "8", "9"}

\* any(w in line for w in words)
ContainsAny(line, words) == \E w \in words : Contains(line, w)

\* section_headers
SectionHeaders ==
    {<<"e", "x", "p", "e", "r", "i", "e", "n", "c", "e">>,
     <<"w", "o", "r", "k", " ", "e", "x", "p", "e", "r", "i", "e", "n", "c", "e">>,
     <<"p", "r", "o", "f", "e", "s", "s", "i", "o", "n", "a", "l", " ", "e",
       "x", "p", "e", "r", "i", "e", "n", "c", "e">>}

\* stop_sections
StopSections ==
    {<<"e", "d", "u", "c", "a", "t", "i", "o", "n">>,
     <<"s", "k", "i", "l", "l", "s">>,
     <<"l", "i", "c", "e", "n", "s", "e", "s">>,
     <<"c", "e", "r", "t", "i", "f", "i", "c", "a", "t", "i", "o", "n", "s">>,
     <<"p", "r", "o", "j", "e", "c", "t", "s">>,
     <<"l", "a", "n", "g", "u", "a", "g", "e", "s">>,
     <<"r", "e", "c", "o", "m", "m", "e", "n", "d", "a", "t", "i", "o", "n", "s">>}

\* the tokens that keep a line from being a job title
NoiseTokens ==
    {<<"h", "t", "t", "p">>,
     <<"f", "o", "l", "l", "o", "w">>,
     <<"e", "n", "d", "o", "r", "s", "e">>,
     <<"b", "u", "t", "t", "o", "n">>}

\* the marks of a company line
CompanyMarks ==
    {<<"I", "n", "c">>,
     <<"L", "t", "d">>,
     <<",">>}

\* current_exp = None; an entry without a key has the empty line there
NoEntry == [title |-> <<>>, company |-> <<>>, duration |-> <<>>, description |-> <<>>]

\* if current_exp and current_exp.get('title'): experiences.append(current_exp)
Flush(st) ==
    IF st.current_exp.title # <<>>
    THEN [st EXCEPT !.experiences = Append(@, st.current_exp)]
    ELSE st

\* the elif current_exp: branch, which fills company, duration, description
FillEntry(cur, line) ==
    IF cur.company = <<>> /\ (ContainsAny(line, CompanyMarks) \/ Len(line) > 20)
    THEN [cur EXCEPT !.company = line]
    ELSE IF cur.duration = <<>> /\ \E i \in 1..Len(line) : line[i] \in Digits
    THEN [cur EXCEPT !.duration = line]
    ELSE IF cur.description = <<>> /\ Len(line) > 10
    THEN [cur EXCEPT !.description = line]
    ELSE cur

\* the body of the loop for one line; stopped = the loop was left by break
ExperienceLine(st, line) ==
    LET line_clean == LowerLine(Strip(line)) IN
    IF ContainsAny(line_clean, SectionHeaders) /\ ~st.exp_started
    THEN [st EXCEPT !.exp_started = TRUE]
    ELSE IF st.exp_started /\ ContainsAny(line_clean, StopSections)
    THEN [Flush(st) EXCEPT !.stopped = TRUE]
    ELSE IF st.exp_started /\ line # <<>>
    THEN IF ~ContainsAny(LowerLine(line), NoiseTokens) /\ Len(line) > 5
         THEN [Flush(st) EXCEPT !.current_exp = [NoEntry EXCEPT !.title = line]]
         ELSE IF st.current_exp # NoEntry
         THEN [st EXCEPT !.current_exp = FillEntry(@, line)]
         ELSE st
    ELSE st

RECURSIVE ExperienceLoop(_, _, _)
ExperienceLoop(st, lines, i) ==
    IF i > Len(lines) \/ st.stopped THEN st
    ELSE ExperienceLoop(ExperienceLine(st, lines[i]), lines, i + 1)

\* _extract_experience(page, all_text): the list returned
ExtractExperience(lines) ==
    Flush(ExperienceLoop([exp_started |-> FALSE, stopped |-> FALSE,
                          current_exp |-> NoEntry, experiences |-> <<>>],
                         lines, 1)).experiences

XpIdle == [pc |-> "idle", lines |-> <<>>, experiences |-> <<>>]

XpCall(lines) ==
    /\ xp.pc = "idle"
    /\ xp' = [pc |-> "done", lines |-> lines, experiences |-> ExtractExperience(lines)]

XpReturn ==
    /\ xp.pc = "done"
    /\ xp' = XpIdle

XpNext ==
    \/ xp.pc = "idle" /\ \E lines \in PageLines : XpCall(lines)
    \/ XpReturn

(***************************************************************************)
(* DataExtractor.parse_contact_info  (src/scraper/data_extractor.py        *)
(* 625-858).  The contact text is the sequence of its lines; a line is a   *)
(* record of its text and of the parts the regular expressions look at.    *)
(***************************************************************************)
MaxContactLines == 3    \* the contact texts have 0..MaxContactLines lines

LineJohnEmail ==
    [kind |-> "email", text |-> "john@acme.com", host |-> "acme.com",
     site |-> "acme", tld |-> "com"]

LineJohnPhone == [kind |-> "phone", text |-> "+1 415 555 0100", plus |-> TRUE]

LineContactInfo == [kind |-> "words", text |-> "Contact info"]

LineAbout == [kind |-> "words", text |-> "About"]

LineEmailLabel == [kind |-> "words", text |-> "Email"]

LineJaneLinkedIn ==
    [kind |-> "link", text |-> "linkedin.com/in/jane", scheme |-> "",
     host |-> "linkedin.com", site |-> "linkedin", tld |-> "com", path |-> "/in/jane"]

LineJaneSite ==
    [kind |-> "link", text |-> "https://jane.dev/blog", scheme |-> "https://",
     host |-> "jane.dev", site |-> "jane", tld |-> "dev", path |-> "/blog"]

LineJaneSkype ==
    [kind |-> "labelled", text |-> "Skype: jane.doe", label |-> "skype",
     value |-> "jane.doe"]

ContactLines ==
    {LineJohnEmail, LineJohnPhone, LineContactInfo, LineAbout, LineEmailLabel,
     LineJaneLinkedIn, LineJaneSite, LineJaneSkype}

ContactTexts == SeqsUpTo(ContactLines, MaxContactLines)

\* the categories the spec names
Categories ==
    {"emails", "phones", "linkedin_urls", "github_urls", "websites", "twitter",
     "instagram", "facebook", "whatsapp", "telegram", "birthday", "skype",
     "youtube"}

\* 'contact info' in line.lower()
IsContactHeader(line) == line.kind = "words" /\ line.text = "Contact info"

\* any(marker in line.lower() for marker in ['about', 'experience', ...])
IsSectionMarker(line) == line.kind = "words" /\ line.text = "About"

\* the least member of a set of line indices, or 0 when there is none
FirstIndex(found) ==
    IF found = {} THEN 0 ELSE CHOOSE i \in found : \A j \in found : i <= j

\* lines 632-654: the lines after the first 'contact info' line and before
\* the next section marker replace the text, unless there are none
CleanContactText(lines) ==
    LET start == FirstIndex({i \in 1..Len(lines) : IsContactHeader(lines[i])})
        stop == FirstIndex({i \in (start + 1)..Len(lines) : IsSectionMarker(lines[i])})
        contact_lines == SubSeq(lines, start + 1,
                                IF stop = 0 THEN Len(lines) ELSE stop - 1)
    IN  IF start > 0 /\ contact_lines # <<>> THEN contact_lines ELSE lines

\* the matches of one pattern in the whole text, given its matches per line
Matches(found) == UNION {found[i] : i \in DOMAIN found}

\* emails if emails else ['N/A']
OrNA(found) == IF found = {} THEN {"N/A"} ELSE found

\* [a-zA-Z0-9._%+-]+@[a-zA-Z0-9.-]+\.[a-zA-Z]{2,}
EmailsIn(line) == IF line.kind = "email" THEN {line.text} ELSE {}

\* (?:phone|tel|mobile)[:\s]+(...) and \+[\d]{1,3}[\d\s.\-()]{8,}
PhonesIn(line) ==
    IF line.kind = "phone" /\ line.plus THEN {line.text}
    ELSE IF line.kind = "labelled" /\ line.label \in {"phone", "tel", "mobile"}
    THEN {line.value}
    ELSE {}

\* u if u.startswith('http') else 'https://' + u
WithHttps(line) == IF line.scheme = "" THEN "https://" \o line.text ELSE line.text

\* (?:https?://)?(?:www\.)?linkedin\.com/in/[\w\-]+, and the URL rebuilt
\* from the username after linkedin.com/in/
LinkedInUrlsIn(line) ==
    IF line.kind = "link" /\ line.host = "linkedin.com"
    THEN {WithHttps(line), "https://linkedin.com" \o line.path}
    ELSE {}

\* https?://(?:www\.)?github\.com/[\w\-]+|github\.com/[\w\-]+
GithubUrlsIn(line) ==
    IF line.kind = "link" /\ line.host = "github.com" THEN {WithHttps(line)} ELSE {}

\* the top-level domains of domain_pattern
DomainTlds ==
    {"ac.bd", "com", "org", "net", "edu", "io", "co", "bd", "wordpress.com",
     "github.io", "dev", "app", "in", "us", "uk", "au", "ca", "de", "fr", "jp",
     "cn", "ru", "tv", "xyz", "info", "biz", "name", "me", "cc"}

NoiseSites ==
    {"linkedin", "github", "facebook", "twitter", "instagram", "youtube", "corp"}

\* https?://[^\s<>"\)]+ without linkedin and github, and every host that
\* domain_pattern finds (also after an @) and that is not a noise domain
WebsitesIn(line) ==
    (IF line.kind = "link" /\ line.scheme # "" /\ line.site \notin {"linkedin", "github"}
     THEN {line.text} ELSE {})
    \cup (IF line.kind \in {"email", "link"} /\ line.tld \in DomainTlds
             /\ line.site \notin NoiseSites
          THEN {line.host} ELSE {})

\* (?:twitter\.com/|@)(?P<handle>[\w\-]{1,15}): also the word after the @
\* of an e-mail address
TwitterIn(line) ==
    IF line.kind = "email" THEN {line.site}
    ELSE IF line.kind = "link" /\ line.host = "twitter.com" THEN {line.path}
    ELSE {}

\* the patterns that need a label or a host of their own
LabelledIn(line, labels, hosts) ==
    IF line.kind = "labelled" /\ line.label \in labels THEN {line.value}
    ELSE IF line.kind = "link" /\ line.host \in hosts THEN {line.path}
    ELSE {}

InstagramIn(line) == LabelledIn(line, {"instagram", "instagram handle"}, {"instagram.com"})

FacebookIn(line) == LabelledIn(line, {"facebook"}, {"facebook.com"})

WhatsappIn(line) == LabelledIn(line, {"whatsapp"}, {"wa.me"})

TelegramIn(line) == LabelledIn(line, {"telegram"}, {"t.me"})

BirthdayIn(line) == LabelledIn(line, {"birthday", "born", "dob", "date of birth"}, {})

SkypeIn(line) == LabelledIn(line, {"skype"}, {})

\* https?://(?:www\.)?youtube\.com/..., https?://(?:www\.)?twitter\.com/...
UrlsOfHostIn(line, host) ==
    IF line.kind = "link" /\ line.scheme # "" /\ line.host = host THEN {line.text}
    ELSE {}

YoutubeIn(line) == UrlsOfHostIn(line, "youtube.com")

TwitterUrlIn(line) == UrlsOfHostIn(line, "twitter.com")

EmptyDict == [k \in {} |-> {}]

\* the dict of the except branch at line 858
ParseErrorDict(lines) ==
    IF lines = <<>> THEN EmptyDict ELSE [raw_text |-> lines, error |-> "error"]

\* parse_contact_info(contact_text) when nothing raises
ParseContactInfo(lines) ==
    IF lines = <<>> THEN EmptyDict
    ELSE LET t == CleanContactText(lines)
             linkedin_urls == OrNA(Matches([i \in DOMAIN t |-> LinkedInUrlsIn(t[i])]))
         IN  [raw_text |-> t,
              emails |-> OrNA(Matches([i \in DOMAIN t |-> EmailsIn(t[i])])),
              phones |-> OrNA(Matches([i \in DOMAIN t |-> PhonesIn(t[i])])),
              linkedin_urls |-> linkedin_urls,
              github_urls |-> OrNA(Matches([i \in DOMAIN t |-> GithubUrlsIn(t[i])])),
              websites |-> OrNA(Matches([i \in DOMAIN t |-> WebsitesIn(t[i])])),
              twitter |-> OrNA(Matches([i \in DOMAIN t |-> TwitterIn(t[i])])),
              instagram |-> OrNA(Matches([i \in DOMAIN t |-> InstagramIn(t[i])])),
              facebook |-> OrNA(Matches([i \in DOMAIN t |-> FacebookIn(t[i])])),
              whatsapp |-> OrNA(Matches([i \in DOMAIN t |-> WhatsappIn(t[i])])),
              telegram |-> OrNA(Matches([i \in DOMAIN t |-> TelegramIn(t[i])])),
              birthday |-> OrNA(Matches([i \in DOMAIN t |-> BirthdayIn(t[i])])),
              skype |-> OrNA(Matches([i \in DOMAIN t |-> SkypeIn(t[i])])),
              youtube |-> OrNA(Matches([i \in DOMAIN t |-> YoutubeIn(t[i])])),
              twitter_url |-> OrNA(Matches([i \in DOMAIN t |-> TwitterUrlIn(t[i])])),
              \* contact_info['linkedin_urls'][0]
              linkedin_url |-> CHOOSE u \in linkedin_urls : TRUE]

PcIdle == [pc |-> "idle"]

PcCall(lines, raises) ==
    /\ pci.pc = "idle"
    /\ pci' = [pc |-> "done", contact_text |-> lines, raised |-> raises,
               contact_info |-> IF raises THEN ParseErrorDict(lines)
                                ELSE ParseContactInfo(lines)]

PcReturn ==
    /\ pci.pc = "done"
    /\ pci' = PcIdle

PcNext ==
    \/ pci.pc = "idle" /\ \E lines \in ContactTexts, raises \in BOOLEAN : PcCall(lines, raises)
    \/ PcReturn

(***************************************************************************)
(* The contact info of a profile: ScrapeAgent._extract_contact_info        *)
(* (src/agents/scrape_agent.py 194-324), the page scan                     *)
(* DataExtractor._extract_contact_info_from_page (data_extractor.py        *)
(* 578-623) and lines 82-99 of scrape_profile.  None is NoDict.            *)
(***************************************************************************)
MaxFlowLines == 2       \* the modal and the overlay show 0..MaxFlowLines lines

FlowTexts == SeqsUpTo(ContactLines, MaxFlowLines)

NoDict == [is_none |-> TRUE, d |-> EmptyDict]

Dict(d) == [is_none |-> FALSE, d |-> d]

\* if contact_info:
Truthy(c) == ~c.is_none /\ DOMAIN c.d # {}

\* the dict of a parse that may raise
Parsed(lines, raises) ==
    Dict(IF raises THEN ParseErrorDict(lines) ELSE ParseContactInfo(lines))

\* _extract_contact_info_from_page: the first LinkedIn URL of the page text
\* or of the page HTML, or None
PageScanDict(found) ==
    IF found THEN Dict([linkedin_url |-> "https://www.linkedin.com/in/jane"])
    ELSE NoDict

CiIdle ==
    [pc |-> "idle", tried |-> <<>>, contact_info |-> NoDict, source |-> "none",
     attached |-> FALSE, profile_contact |-> NoDict,
     away |-> FALSE, back |-> "none", location |-> "profile"]

\* lines 199-203: return None unless the page is a profile page
CiBegin(on_profile) ==
    /\ ci.pc = "idle"
    /\ ci' = [ci EXCEPT !.pc = IF on_profile THEN "modal" ELSE "page_scan"]

\* a method 1 after which method 2 runs whatever the modal gave
CiModalThenOverlay(lines, raises) ==
    /\ ci.pc = "modal"
    /\ LET c == IF lines = <<>> THEN NoDict ELSE Parsed(lines, raises) IN
       ci' = IF Truthy(c)
             THEN [ci EXCEPT !.pc = "overlay", !.tried = Append(@, "modal"),
                             !.contact_info = c, !.source = "modal"]
             ELSE [ci EXCEPT !.pc = "overlay", !.tried = Append(@, "modal")]

\* method 1, lines 205-270: click the Contact info link and parse the text
\* of the modal; lines = <<>> when there is no link, the click or the wait
\* fails, or the modal has no text
CiModal(lines, raises) ==
    /\ ci.pc = "modal"
    /\ LET c == IF lines = <<>> THEN NoDict ELSE Parsed(lines, raises) IN
       ci' = IF Truthy(c)
             THEN [ci EXCEPT !.pc = "page_scan", !.tried = Append(@, "modal"),
                             !.contact_info = c, !.source = "modal"]
             ELSE [ci EXCEPT !.pc = "overlay", !.tried = Append(@, "modal")]

\* lines 297-306: the navigate back to current_url is made inside
\*   if response: ... if page_text:
\* (the handler at 311-317 is entered by an exception only, and navigate,
\* random_delay and get_page_content raise none)
NavigatesBack(response, lines) == response /\ lines # <<>>

\* where the browser is when _extract_contact_info returns: landed = the goto
\* of the overlay URL changed the page (always so when navigate returned True)
LocationAfter(landed, back) ==
    IF back = "ok" THEN "profile" ELSE IF landed THEN "overlay" ELSE "profile"

\* method 2, lines 272-318: navigate to <profile>/overlay/contact-info/ with
\* max_retries = 1, parse the page text and navigate back
CiOverlay(response, landed, lines, raises, back_ok) ==
    /\ ci.pc = "overlay"
    /\ response => landed
    /\ LET c == IF response /\ lines # <<>> THEN Parsed(lines, raises) ELSE NoDict
           back == IF NavigatesBack(response, lines)
                   THEN (IF back_ok THEN "ok" ELSE "failed") ELSE "none"
           r == [ci EXCEPT !.pc = "page_scan", !.tried = Append(@, "overlay"),
                           !.away = landed, !.back = back,
                           !.location = LocationAfter(landed, back)]
       IN  ci' = IF Truthy(c)
                 THEN [r EXCEPT !.contact_info = c, !.source = "overlay"]
                 ELSE r

\* scrape_profile lines 85-94: when contact_info is empty or has at most one
\* key the page is scanned, and what the scan finds replaces it
CiPageScan(found) ==
    /\ ci.pc = "page_scan"
    /\ IF ~Truthy(ci.contact_info) \/ Cardinality(DOMAIN ci.contact_info.d) <= 1
       THEN LET page_contact_info == PageScanDict(found) IN
            ci' = IF Truthy(page_contact_info)
                  THEN [ci EXCEPT !.pc = "attach", !.tried = Append(@, "page"),
                                  !.contact_info = page_contact_info,
                                  !.source = "page"]
                  ELSE [ci EXCEPT !.pc = "attach", !.tried = Append(@, "page")]
       ELSE ci' = [ci EXCEPT !.pc = "attach"]

\* lines 96-99: if contact_info: profile_data['contact_info'] = contact_info
CiAttach ==
    /\ ci.pc = "attach"
    /\ ci' = IF Truthy(ci.contact_info)
             THEN [ci EXCEPT !.pc = "done", !.attached = TRUE,
                             !.profile_contact = ci.contact_info]
             ELSE [ci EXCEPT !.pc = "done"]

CiReturn ==
    /\ ci.pc = "done"
    /\ ci' = CiIdle

CiNext ==
    \/ \E on_profile \in BOOLEAN : CiBegin(on_profile)
    \/ \E lines \in FlowTexts, raises \in BOOLEAN : CiModal(lines, raises)
    \/ \E response \in BOOLEAN, landed \in BOOLEAN, lines \in FlowTexts,
          raises \in BOOLEAN, back_ok \in BOOLEAN :
          CiOverlay(response, landed, lines, raises, back_ok)
    \/ \E found \in BOOLEAN : CiPageScan(found)
    \/ CiAttach
    \/ CiReturn

(***************************************************************************)
(* A user interrupt during a workflow: LinkedInScraperApp.run and shutdown *)
(* (src/main.py 431-509), with the awaits of scrape_multiple_profiles and  *)
(* scrape_profile as the steps.  The interrupt reaches the coroutine as a  *)
(* BaseException (asyncio.CancelledError or KeyboardInterrupt) raised by   *)
(* the await in flight:  except:  catches it,  except Exception  does not. *)
(***************************************************************************)
MaxProfiles == 2        \* a workflow scrapes 1..MaxProfiles profiles

\* the awaits of one iteration of scrape_multiple_profiles, in order, each
\* with the handler that encloses it most closely
AppSteps ==
    <<[name |-> "adaptive_delay", handler |-> "except Exception"],
      [name |-> "goto", handler |-> "except Exception"],
      [name |-> "detect_captcha", handler |-> "except"],
      [name |-> "random_delay", handler |-> "except Exception"],
      [name |-> "dismiss_modal", handler |-> "except"],
      [name |-> "check_access", handler |-> "except Exception"],
      [name |-> "human_scroll", handler |-> "except Exception"],
      [name |-> "extract_complete_profile", handler |-> "except Exception"],
      [name |-> "close_modals", handler |-> "except"],
      [name |-> "expand_sections", handler |-> "except Exception"],
      [name |-> "contact_link", handler |-> "except"],
      [name |-> "contact_click", handler |-> "except Exception"],
      [name |-> "contact_modal", handler |-> "except"],
      [name |-> "contact_overlay", handler |-> "except Exception"],
      [name |-> "contact_back", handler |-> "except"]>>

\* does the handler around the step catch a BaseException?
Swallows(step) == step.handler = "except"

AppIdle ==
    [pc |-> "menu", total |-> 0, i |-> 0, k |-> 0, interrupted |-> FALSE,
     interrupted_at |-> "none", after |-> {}, released |-> <<>>, c |-> 0]

\* a menu choice starts a workflow over `total` profiles; the first profile
\* has no adaptive delay (if i > 1)
AppStartWorkflow(total) ==
    /\ app.pc = "menu"
    /\ app' = [app EXCEPT !.pc = "workflow", !.total = total, !.i = 1, !.k = 2]

\* the state once step number k of profile i is over
AppAdvance(a) ==
    LET done == [a EXCEPT !.after = IF a.interrupted
                                    THEN @ \cup {<<a.i, AppSteps[a.k].name>>}
                                    ELSE @]
    IN  IF a.k < Len(AppSteps) THEN [done EXCEPT !.k = @ + 1]
        ELSE IF a.i < a.total THEN [done EXCEPT !.i = @ + 1, !.k = 1]
        ELSE [done EXCEPT !.pc = "menu", !.i = 0, !.k = 0]

\* the await in flight completes
AppStep ==
    /\ app.pc = "workflow"
    /\ app' = AppAdvance(app)

\* the user interrupts while the await of step k is in flight: a handler
\* that catches it abandons the step and the coroutine goes on; otherwise it
\* leaves scrape_profile, the workflow and the loop of run(), whose
\* finally: calls shutdown()
AppInterrupt ==
    /\ app.pc = "workflow" /\ ~app.interrupted
    /\ LET a == [app EXCEPT !.interrupted = TRUE,
                            !.interrupted_at = AppSteps[app.k].name]
       IN  app' = IF Swallows(AppSteps[app.k])
                  THEN [AppAdvance(a) EXCEPT !.after = a.after]
                  ELSE [a EXCEPT !.pc = "shutdown", !.c = 1]

\* menu choice 0: break, then finally: shutdown()
AppExit ==
    /\ app.pc = "menu"
    /\ app' = [app EXCEPT !.pc = "shutdown", !.c = 1]

\* shutdown -> BrowserController.cleanup: the next resource is closed
AppCleanupStep ==
    /\ app.pc = "shutdown" /\ app.c <= Len(Release)
    /\ app' = [app EXCEPT !.released = Append(@, Release[app.c]), !.c = @ + 1]

AppCleanupDone ==
    /\ app.pc = "shutdown" /\ app.c > Len(Release)
    /\ app' = [app EXCEPT !.pc = "exited"]

AppNext ==
    \/ \E total \in 1..MaxProfiles : AppStartWorkflow(total)
    \/ AppStep
    \/ AppInterrupt
    \/ AppExit
    \/ AppCleanupStep
    \/ AppCleanupDone

(***************************************************************************)
(* ScrapeAgent._adaptive_delay  (src/agents/scrape_agent.py 361-380)       *)
(***************************************************************************)
MaxTotal == 10          \* the batches have 1..MaxTotal profiles

\* delay_range settings, in seconds: the default (15, 30) and a short one
BaseRanges == {<<15, 30>>, <<1, 2>>}

\* the multiplier of the base range, in tenths; progress_factor is
\* current / total, and the tests are made in the order of the source
AdaptiveFactor(current, total) ==
    IF 10 * current > 7 * total THEN 15
    ELSE IF 10 * current > 9 * total THEN 20
    ELSE 10

\* (delay_min, delay_max) in tenths of a second
AdaptiveRange(current, total, base_range) ==
    <<base_range[1] * AdaptiveFactor(current, total),
      base_range[2] * AdaptiveFactor(current, total)>>

AdIdle == [pc |-> "idle"]

\* _adaptive_delay(current, total, base_range), random.uniform picking the
\* low end, the middle or the high end of the range
AdCall(current, total, base_range, u) ==
    /\ ad.pc = "idle"
    /\ LET range == AdaptiveRange(current, total, base_range)
       IN  ad' = [pc |-> "sleep", current |-> current, total |-> total,
                  base_range |-> base_range, range |-> range,
                  delay |-> Uniform(range[1], range[2], u)]

\* await asyncio.sleep(delay) is over
AdReturn ==
    /\ ad.pc = "sleep"
    /\ ad' = AdIdle

AdNext ==
    \/ \E total \in 1..MaxTotal, base_range \in BaseRanges, u \in UniformHalves :
          \E current \in 1..total : AdCall(current, total, base_range, u)
    \/ AdReturn

(***************************************************************************)
(* SearchAgent._extract_profile_links (src/agents/search_agent.py 84-115)  *)
(* and ConnectionsAgent._extract_connection_links (connections_agent.py    *)
(* 124-162).  An href is the sequence of its pieces; includes() looks for  *)
(* a piece, split('?')[0] is what stands before the first "?".             *)
(***************************************************************************)
MaxHrefLen == 3         \* the hrefs have 0..MaxHrefLen pieces

Origin == "https://www.linkedin.com"

HrefPieces ==
    {Origin, "/in/", "jane", "?", "/overlay/", "/search/results/",
     "/notifications/", "/messaging/"}

Hrefs == SeqsUpTo(HrefPieces, MaxHrefLen)

\* href.includes(piece)
Includes(href, piece) == \E i \in 1..Len(href) : href[i] = piece

\* href.split('?')[0]
BeforeQuery(href) ==
    IF Includes(href, "?")
    THEN SubSeq(href, 1, (CHOOSE i \in 1..Len(href) :
                             href[i] = "?" /\ \A j \in 1..(i - 1) : href[j] # "?") - 1)
    ELSE href

\* cleanUrl.startsWith('http')
StartsWithHttp(url) == url # <<>> /\ Head(url) = Origin

\* cleanUrl if it starts with http, else 'https://www.linkedin.com' + cleanUrl
FullUrl(cleanUrl) == IF StartsWithHttp(cleanUrl) THEN cleanUrl ELSE <<Origin>> \o cleanUrl

\* if (href && href.includes('/in/'))
SearchTakes(href) == href # <<>> /\ Includes(href, "/in/")

\* if (href && href.includes('/in/') && !href.includes('/overlay/'))
ConnectionsTakes(href) ==
    href # <<>> /\ Includes(href, "/in/") /\ ~Includes(href, "/overlay/")

\* the filter after [...new Set(profileLinks)]
ConnectionsKeeps(url) ==
    /\ ~Includes(url, "/search/results/")
    /\ ~Includes(url, "/notifications/")
    /\ ~Includes(url, "/messaging/")

RECURSIVE PushLinks(_, _, _)
PushLinks(anchors, agent, k) ==
    IF k > Len(anchors) THEN <<>>
    ELSE LET href == anchors[k]
             takes == IF agent = "search" THEN SearchTakes(href)
                      ELSE ConnectionsTakes(href)
         IN  (IF takes THEN <<FullUrl(BeforeQuery(href))>> ELSE <<>>)
             \o PushLinks(anchors, agent, k + 1)

\* _extract_profile_links: the list page.evaluate returns
ExtractProfileLinks(anchors) == Dedup(PushLinks(anchors, "search", 1))

\* _extract_connection_links: the list page.evaluate returns
ExtractConnectionLinks(anchors) ==
    SelectSeq(Dedup(PushLinks(anchors, "connections", 1)), ConnectionsKeeps)

ExtractLinks(agent, anchors) ==
    IF agent = "search" THEN ExtractProfileLinks(anchors)
    ELSE ExtractConnectionLinks(anchors)

LkIdle == [pc |-> "idle"]

\* one call on a page with the anchor href, once or twice
LkCall(agent, href, twice) ==
    /\ lk.pc = "idle"
    /\ LET anchors == IF twice THEN <<href, href>> ELSE <<href>> IN
       lk' = [pc |-> "done", agent |-> agent, anchors |-> anchors,
              links |-> ExtractLinks(agent, anchors)]

LkReturn ==
    /\ lk.pc = "done"
    /\ lk' = LkIdle

LkNext ==
    \/ lk.pc = "idle" /\ \E agent \in {"search", "connections"}, href \in Hrefs,
                            twice \in BOOLEAN : LkCall(agent, href, twice)
    \/ LkReturn

(***************************************************************************)
(* DataExtractor._extract_education (src/scraper/data_extractor.py         *)
(* 385-420) and _extract_certifications (448-485), next to                 *)
(* _extract_experience: the extractors of sections with several entries.   *)
(***************************************************************************)
MaxEntryLines == 4      \* the page texts are all texts of 0..MaxEntryLines
                        \* lines of EntryTextLines

\* "Licenses"
LineLicenses ==
    <<"L", "i", "c", "e", "n", "s", "e", "s">>

\* "Skills"
LineSkills ==
    <<"S", "k", "i", "l", "l", "s">>

\* "Stanford University"
LineStanford ==
    <<"S", "t", "a", "n", "f", "o", "r", "d", " ", "U", "n", "i", "v", "e",
      "r", "s", "i", "t", "y">>

\* "MIT"
LineMIT ==
    <<"M", "I", "T">>

EntryTextLines ==
    {LineExperience, LineEducation, LineLicenses, LineSkills, LineStanford,
     LineSeniorEngineer, LineMIT, LineYear, LineLink}

EntryTexts == SeqsUpTo(EntryTextLines, MaxEntryLines)

\* _extract_education: section_headers
EducationHeaders ==
    {<<"e", "d", "u", "c", "a", "t", "i", "o", "n">>,
     <<"a", "c", "a", "d", "e", "m", "i", "c", " ", "b", "a", "c", "k",
       "g", "r", "o", "u", "n", "d">>,
     <<"s", "t", "u", "d", "i", "e", "s">>}

\* _extract_education: stop_sections
EducationStops ==
    {<<"s", "k", "i", "l", "l", "s">>,
     <<"l", "i", "c", "e", "n", "s", "e", "s">>,
     <<"p", "r", "o", "j", "e", "c", "t", "s">>,
     <<"l", "a", "n", "g", "u", "a", "g", "e", "s">>,
     <<"r", "e", "c", "o", "m", "m", "e", "n", "d", "a", "t", "i", "o",
       "n", "s">>,
     <<"e", "x", "p", "e", "r", "i", "e", "n", "c", "e">>}

\* the tokens that keep a line out of an education entry
EducationNoise ==
    {<<"h", "t", "t", "p">>,
     <<"f", "o", "l", "l", "o", "w">>,
     <<"b", "u", "t", "t", "o", "n">>}

\* 'Licenses' in line or 'Certifications' in line
CertificationHeaders ==
    {<<"L", "i", "c", "e", "n", "s", "e", "s">>,
     <<"C", "e", "r", "t", "i", "f", "i", "c", "a", "t", "i", "o", "n", "s">>}

\* _extract_certifications: the sections that end the list
CertificationStops ==
    {<<"P", "r", "o", "j", "e", "c", "t", "s">>,
     <<"L", "a", "n", "g", "u", "a", "g", "e", "s">>,
     <<"S", "k", "i", "l", "l", "s">>}

\* current_edu = None; an entry without a key has the empty line there
NoEducation == [school |-> <<>>, degree |-> <<>>, duration |-> <<>>]

HasDigit(line) == \E i \in 1..Len(line) : line[i] \in Digits

\* if current_edu and current_edu.get('school'): education.append(current_edu)
FlushEducation(st) ==
    IF st.current_edu.school # <<>>
    THEN [st EXCEPT !.education = Append(@, st.current_edu)]
    ELSE st

\* lines 405-413: a line that is long enough and free of noise tokens is the
\* school when the current entry has none, else the degree, else the
\* duration if it has a digit
EducationEntry(st, line) ==
    IF st.current_edu.school = <<>>
    THEN [FlushEducation(st) EXCEPT !.current_edu = [NoEducation EXCEPT !.school = line]]
    ELSE IF st.current_edu.degree = <<>>
    THEN [st EXCEPT !.current_edu.degree = line]
    ELSE IF st.current_edu.duration = <<>> /\ HasDigit(line)
    THEN [st EXCEPT !.current_edu.duration = line]
    ELSE st

\* the body of the loop for one line; stopped = the loop was left by break
EducationLine(st, line) ==
    LET line_clean == LowerLine(Strip(line)) IN
    IF ContainsAny(line_clean, EducationHeaders) /\ ~st.edu_started
    THEN [st EXCEPT !.edu_started = TRUE]
    ELSE IF st.edu_started /\ ContainsAny(line_clean, EducationStops)
    THEN [FlushEducation(st) EXCEPT !.stopped = TRUE]
    ELSE IF st.edu_started /\ line # <<>>
            /\ ~ContainsAny(LowerLine(line), EducationNoise) /\ Len(line) > 3
    THEN EducationEntry(st, line)
    ELSE st

RECURSIVE EducationLoop(_, _, _)
EducationLoop(st, lines, i) ==
    IF i > Len(lines) \/ st.stopped THEN st
    ELSE EducationLoop(EducationLine(st, lines[i]), lines, i + 1)

\* _extract_education(page, all_text): the list returned
ExtractEducation(lines) ==
    FlushEducation(EducationLoop([edu_started |-> FALSE, stopped |-> FALSE,
                                  current_edu |-> NoEducation, education |-> <<>>],
                                 lines, 1)).education

\* current_cert = None
NoCertification == [name |-> <<>>, issuer |-> <<>>, date |-> <<>>]

\* if current_cert and current_cert.get('name'): certs.append(current_cert)
FlushCertification(st) ==
    IF st.current_cert.name # <<>>
    THEN [st EXCEPT !.certs = Append(@, st.current_cert)]
    ELSE st

\* lines 468-475: the line is the name when the current entry has none, else
\* the issuer, else the date if it has a digit
CertificationEntry(st, line) ==
    IF st.current_cert.name = <<>>
    THEN [st EXCEPT !.current_cert = [NoCertification EXCEPT !.name = line]]
    ELSE IF st.current_cert.issuer = <<>>
    THEN [st EXCEPT !.current_cert.issuer = line]
    ELSE IF st.current_cert.date = <<>> /\ HasDigit(line)
    THEN [st EXCEPT !.current_cert.date = line]
    ELSE st

\* the body of the loop for one line, line = line.strip()
CertificationLine(st, raw) ==
    LET line == Strip(raw) IN
    IF ContainsAny(line, CertificationHeaders)
    THEN [st EXCEPT !.cert_started = TRUE]
    ELSE IF st.cert_started /\ ContainsAny(line, CertificationStops)
    THEN [FlushCertification(st) EXCEPT !.stopped = TRUE]
    ELSE IF st.cert_started /\ line # <<>>
    THEN CertificationEntry(st, line)
    ELSE st

RECURSIVE CertificationLoop(_, _, _)
CertificationLoop(st, lines, i) ==
    IF i > Len(lines) \/ st.stopped THEN st
    ELSE CertificationLoop(CertificationLine(st, lines[i]), lines, i + 1)

\* _extract_certifications(page, all_text): the list returned
ExtractCertifications(lines) ==
    FlushCertification(CertificationLoop([cert_started |-> FALSE, stopped |-> FALSE,
                                          current_cert |-> NoCertification,
                                          certs |-> <<>>],
                                         lines, 1)).certs

\* the primary field of each entry of a section, in order
Primaries(section, lines) ==
    IF section = "experience"
    THEN LET r == ExtractExperience(lines) IN [i \in 1..Len(r) |-> r[i].title]
    ELSE IF section = "education"
    THEN LET r == ExtractEducation(lines) IN [i \in 1..Len(r) |-> r[i].school]
    ELSE LET r == ExtractCertifications(lines) IN [i \in 1..Len(r) |-> r[i].name]

\* the secondary fields of each entry, in order
Secondaries(section, lines) ==
    IF section = "experience"
    THEN LET r == ExtractExperience(lines)
         IN  [i \in 1..Len(r) |-> <<r[i].company, r[i].duration, r[i].description>>]
    ELSE IF section = "education"
    THEN LET r == ExtractEducation(lines)
         IN  [i \in 1..Len(r) |-> <<r[i].degree, r[i].duration>>]
    ELSE LET r == ExtractCertifications(lines)
         IN  [i \in 1..Len(r) |-> <<r[i].issuer, r[i].date>>]

EnIdle == [pc |-> "idle"]

\* one of the three extractors is called on a page text
EnCall(section, lines) ==
    /\ en.pc = "idle"
    /\ en' = [pc |-> "done", section |-> section, lines |-> lines,
              primaries |-> Primaries(section, lines),
              secondaries |-> Secondaries(section, lines)]

EnReturn ==
    /\ en.pc = "done"
    /\ en' = EnIdle

EnNext ==
    \/ en.pc = "idle" /\ \E section \in {"experience", "education", "certifications"},
                            lines \in EntryTexts : EnCall(section, lines)
    \/ EnReturn

(***************************************************************************)
(* HumanBehavior.human_scroll (src/scraper/human_behavior.py 47-104)       *)
(***************************************************************************)
MaxIterations == 20     \* a pass is followed for at most MaxIterations
                        \* iterations of its while loop

ScrollPasses == 2       \* scroll_passes = 2

ScrollPatterns == {"natural", "fast", "slow"}

\* document.body.scrollHeight and window.innerHeight as read in a pass
TotalHeights == {600, 900}
ViewportHeights == {500, 1000}

\* random.randint(300, 800) / (800, 1200) / (150, 400): the two ends
ScrollAmounts(scroll_pattern) ==
    IF scroll_pattern = "natural" THEN {300, 800}
    ELSE IF scroll_pattern = "fast" THEN {800, 1200}
    ELSE {150, 400}

\* random.randint(100, 250): the two ends
BackScrolls == {100, 250}

HsIdle ==
    [pc |-> "idle", scroll_pattern |-> "none", pass_num |-> 0,
     total_height |-> 0, viewport_height |-> 0, current_position |-> 0,
     iterations |-> 0, before |-> 0, ends |-> <<>>, log |-> <<>>,
     result |-> "none"]

\* the next turn of  for pass_num in range(scroll_passes), and the
\* return True  after the last
HsNextPass(h) ==
    IF h.pass_num + 1 < ScrollPasses
    THEN [h EXCEPT !.pass_num = @ + 1, !.pc = "measure", !.iterations = 0]
    ELSE [h EXCEPT !.pc = "done", !.result = "true"]

\* a pass end that leaves the page where the pass ended
HsPassEndNoReset(h) ==
    HsNextPass([h EXCEPT !.ends = Append(@, [position |-> h.current_position,
                                             height |-> h.total_height]),
                         !.log = Append(@, "bottom")])

\* the while loop is left: after the first pass window.scrollTo(0, 0)
HsPassEnd(h) ==
    LET ended == [h EXCEPT !.ends = Append(@, [position |-> h.current_position,
                                               height |-> h.total_height]),
                           !.log = Append(@, "bottom")]
    IN  HsNextPass(IF h.pass_num = 0
                   THEN [ended EXCEPT !.log = Append(@, "top")]
                   ELSE ended)

HsCall(scroll_pattern) ==
    /\ hs.pc = "idle"
    /\ hs' = [HsIdle EXCEPT !.pc = "measure", !.scroll_pattern = scroll_pattern]

\* the two page.evaluate reads of a pass and the test on them
HsMeasure(total_height, viewport_height) ==
    /\ hs.pc = "measure"
    /\ hs' = LET h == [hs EXCEPT !.total_height = total_height,
                                 !.viewport_height = viewport_height]
             IN  IF total_height <= viewport_height
                 THEN IF h.pass_num = 0
                      THEN HsNextPass([h EXCEPT !.log = Append(@, "visible")])
                      ELSE [h EXCEPT !.pc = "done", !.result = "true",
                                     !.log = Append(@, "visible")]
                 ELSE [h EXCEPT !.pc = "loop", !.current_position = 0]

\* current_position after one iteration of the while loop
ScrollStep(position, scroll_amount, goes_back, back_scroll) ==
    IF goes_back THEN position + scroll_amount - back_scroll
    ELSE position + scroll_amount

\* one iteration of  while current_position < total_height  and the test
\* that follows it
HsIterate(scroll_amount, goes_back, back_scroll) ==
    /\ hs.pc = "loop" /\ hs.iterations < MaxIterations
    /\ hs' = LET h == [hs EXCEPT !.before = hs.current_position,
                                 !.current_position =
                                     ScrollStep(@, scroll_amount, goes_back, back_scroll),
                                 !.iterations = @ + 1]
             IN  IF h.current_position < h.total_height THEN h ELSE HsPassEnd(h)

\* a page.evaluate raised: except Exception: return False
HsRaise ==
    /\ hs.pc \in {"measure", "loop"}
    /\ hs' = [hs EXCEPT !.pc = "done", !.result = "false"]

HsReturn ==
    /\ hs.pc = "done"
    /\ hs' = HsIdle

HsNext ==
    \/ \E p \in ScrollPatterns : HsCall(p)
    \/ \E t \in TotalHeights, v \in ViewportHeights : HsMeasure(t, v)
    \/ \E a \in ScrollAmounts(hs.scroll_pattern), g \in BOOLEAN, b \in BackScrolls :
          HsIterate(a, g, b)
    \/ HsRaise
    \/ HsReturn

(***************************************************************************)
(* ScrapeAgent._expand_all_sections (src/agents/scrape_agent.py 134-192)   *)
(***************************************************************************)
MaxButtons == 21        \* a query finds 0, 1 or MaxButtons controls

ExpandMaxAttempts == 3  \* max_attempts = 3
ExpandClickLimit == 20  \* buttons[:20]
CloseLimit == 3         \* close_buttons[:3]

ButtonCounts == {0, 1, MaxButtons}

Min(a, b) == IF a < b THEN a ELSE b

EaIdle ==
    [pc |-> "idle", expand_attempts |-> 0, buttons |-> 0, i |-> 0,
     closes |-> 0, found |-> <<>>, clicks |-> <<>>, failed |-> 0,
     swallowed |-> {}, result |-> "none"]

\* the outer  except Exception: logger.debug(...)  and the end of the
\* function: it returns None to scrape_profile
EaEnd(x) == [x EXCEPT !.pc = "done", !.result = "returned"]

\* a loop head that allows one pass more
EaLoopHeadOneMore(x) ==
    IF x.expand_attempts <= ExpandMaxAttempts
    THEN [x EXCEPT !.expand_attempts = @ + 1, !.pc = "query"]
    ELSE EaEnd(x)

\* while expand_attempts < max_attempts: expand_attempts += 1
EaLoopHead(x) ==
    IF x.expand_attempts < ExpandMaxAttempts
    THEN [x EXCEPT !.expand_attempts = @ + 1, !.pc = "query"]
    ELSE EaEnd(x)

EaCall ==
    /\ ea.pc = "idle"
    /\ ea' = [EaIdle EXCEPT !.pc = "close"]

\* the modal-closing block: up to three close buttons are clicked; every
\* failure in it is swallowed by the bare  except:
EaClose(close_buttons, raises) ==
    /\ ea.pc = "close"
    /\ ea' = EaLoopHead(IF raises
                        THEN [ea EXCEPT !.swallowed = @ \cup {"close"}]
                        ELSE [ea EXCEPT !.closes = Min(close_buttons, CloseLimit)])

\* query_selector_all of a pass; it raises, finds nothing, or finds buttons
EaQuery(buttons, raises) ==
    /\ ea.pc = "query"
    /\ ea' = IF raises
             THEN EaEnd([ea EXCEPT !.swallowed = @ \cup {"query"}])
             ELSE IF buttons = 0
             THEN EaEnd([ea EXCEPT !.found = Append(@, 0),
                                   !.clicks = Append(@, 0)])
             ELSE [ea EXCEPT !.pc = "click", !.buttons = buttons, !.i = 0,
                             !.found = Append(@, buttons),
                             !.clicks = Append(@, 0)]

\* one turn of  for i, button in enumerate(buttons[:20]): the click is made
\* or raises, and the next button follows in either case
EaClick(raises) ==
    /\ ea.pc = "click"
    /\ ea.i < Min(ea.buttons, ExpandClickLimit)
    /\ ea' = [ea EXCEPT !.i = @ + 1,
                        !.clicks[Len(ea.clicks)] = @ + 1,
                        !.failed = IF raises THEN @ + 1 ELSE @,
                        !.swallowed = IF raises THEN @ \cup {"click"} ELSE @]

\* the delay between passes, after the last button of the pass
EaPause(raises) ==
    /\ ea.pc = "click"
    /\ ea.i = Min(ea.buttons, ExpandClickLimit)
    /\ ea' = IF raises
             THEN EaEnd([ea EXCEPT !.swallowed = @ \cup {"pause"}])
             ELSE EaLoopHead(ea)

EaReturn ==
    /\ ea.pc = "done"
    /\ ea' = EaIdle

EaNext ==
    \/ EaCall
    \/ \E n \in 0..(CloseLimit + 1), r \in BOOLEAN : EaClose(n, r)
    \/ \E n \in ButtonCounts, r \in BOOLEAN : EaQuery(n, r)
    \/ \E r \in BOOLEAN : EaClick(r)
    \/ \E r \in BOOLEAN : EaPause(r)
    \/ EaReturn

(***************************************************************************)
(* Claims about navigate.                                                  *)
(***************************************************************************)
NavAllTimedOut ==
    /\ Len(nav.outcomes) = nav.max_retries
    /\ \A i \in 1..Len(nav.outcomes) : nav.outcomes[i] = "timeout"

NavBlockPersists == nav.block = "found" /\ nav.reload = "blocked"

C3_TimeoutIsRetried ==
    nav.pc = "done" =>
        /\ (nav.max_retries >= 1 /\ nav.outcomes # <<>> /\ nav.outcomes[1] = "timeout")
              => Len(nav.outcomes) >= 2
        /\ (\A i \in 1..Len(nav.outcomes) : nav.outcomes[i] = "timeout")
              => (nav.result = "false" /\ Len(nav.outcomes) <= nav.max_retries + 1)

\* C25: once a block phrase was found in the content of a loaded page,
\* navigate makes one remediation (delay and reload) and returns: true when
\* the reloaded content has no block phrase, false when it has one or the
\* reload failed; the attempt that loaded the page stays the last one
C25_OneRemediationNoRetry ==
    nav.block = "found" =>
        /\ nav.pc \in {"remediate", "done"}
        /\ Len(nav.outcomes) = nav.attempt /\ Last(nav.outcomes) = "ok"
        /\ nav.pc = "remediate" => nav.reload = "none"
        /\ nav.pc = "done" =>
              /\ nav.reload \in {"clean", "blocked", "raised"}
              /\ nav.result = (IF nav.reload = "clean" THEN "true" ELSE "false")

\* the first attempt was blocked and still blocked after the reload, with
\* retries remaining
C25_Witness ==
    /\ nav.pc = "done" /\ nav.block = "found" /\ nav.reload = "blocked"
    /\ nav.attempt = 1 /\ nav.max_retries = 3 /\ nav.result = "false"

\* C26: _handle_captcha returns True when a navigation event occurred or the
\* challenge text is gone from the content, False when the ceiling passed
\* with the challenge text present; it raises nothing, and after False
\* navigate returns False at once, without another attempt
C26_ChallengeOutcome ==
    nav.captcha \in {"handled", "unhandled"} =>
        /\ (nav.nav_event \/ nav.challenge_text = "gone") => nav.captcha = "handled"
        /\ (~nav.nav_event /\ nav.challenge_text = "present") => nav.captcha = "unhandled"
        /\ nav.captcha = "unhandled" =>
              /\ nav.pc = "done" /\ nav.result = "false" /\ nav.line = 239
              /\ Len(nav.outcomes) = nav.attempt /\ Last(nav.outcomes) = "ok"

\* the ceiling passed on the first attempt with the challenge still shown,
\* retries remaining
C26_Witness ==
    /\ nav.pc = "done" /\ nav.captcha = "unhandled"
    /\ ~nav.nav_event /\ nav.challenge_text = "present"
    /\ nav.attempt = 1 /\ nav.max_retries = 3

(***************************************************************************)
(* Claims about cleanup.                                                   *)
(***************************************************************************)
Attempted == [i \in 1..Len(ses.log) |-> ses.log[i][1]]

InHeld(r) == r \in ses.held

HeldInReleaseOrder == SelectSeq(Release, InHeld)

\* C4: cleanup attempts the release of every held resource in the order page,
\* context, browser, engine; a failing release neither stops the later ones nor
\* leaves cleanup
C4_CleanupReleasesAll ==
    /\ ses.pc \in {"cleanup", "closed"} => IsPrefix(Attempted, HeldInReleaseOrder)
    /\ ses.pc = "closed" => (Attempted = HeldInReleaseOrder /\ ~ses.propagated)

C4_Witness ==
    /\ ses.pc = "closed" /\ Len(ses.log) = 4
    /\ ses.log[1][2] = "CancelledError" /\ ses.log[2][2] = "Exception"

\* the releases attempted by the cleanup that initialize's handler ran
InitAttempted == [i \in 1..Len(ses.init_log) |-> ses.init_log[i][1]]

\* C21: once initialize has failed, it has attempted the release of every
\* resource it had acquired before it reports the failure, and no login and
\* no workflow step is ever performed in that run
C21_InitFailureAbortsRun ==
    ses.init_result = "false" =>
        /\ ses.run = <<>>
        /\ ses.pc \in {"cleanup", "init_failed", "closed"}
        /\ ses.pc = "init_failed" => InitAttempted = HeldInReleaseOrder
        /\ ses.pc = "closed" => InitAttempted = HeldInReleaseOrder

\* the browser failed to make a context: engine and browser were released,
\* and the run has ended through shutdown
C21_Witness ==
    /\ ses.init_result = "false" /\ ses.pc = "closed"
    /\ ses.held = {"engine", "browser"}
    /\ InitAttempted = <<"browser", "engine">>

(***************************************************************************)
(* Claims about scrape_profile and scrape_multiple_profiles.               *)
(***************************************************************************)
\* the step machine and its summary ScrapeProfileResult agree
SpResultMatchesSummary ==
    sp.pc = "done" => sp.result = ScrapeProfileResult(sp.nav_ok, sp.text, sp.extracted)

\* C1: the steps of scrape_profile run in the order Navigate, DismissModal,
\* CheckAccess, Scroll, Extract, ExpandSections, ExtractContactInfo,
\* AttachContactInfo, each at most once; after a failed Navigate, a restricted
\* page or an Extract without record no later step runs and there is no record
C1_StepOrder ==
    /\ IsPrefix(sp.trace, Steps)
    /\ sp.pc = "done" =>
        /\ ~sp.nav_ok => (sp.trace = SubSeq(Steps, 1, 1) /\ sp.result = "no_record")
        /\ (sp.nav_ok /\ CheckProfileAccessIssues(sp.text))
              => (sp.trace = SubSeq(Steps, 1, 3) /\ sp.result = "no_record")
        /\ (sp.nav_ok /\ ~CheckProfileAccessIssues(sp.text) /\ ~sp.extracted)
              => (sp.trace = SubSeq(Steps, 1, 5) /\ sp.result = "no_record")
        /\ sp.extracted => (sp.result = "record" /\ Len(sp.trace) >= 7)

C1_Witness ==
    /\ sp.pc = "done" /\ sp.nav_ok /\ sp.text = TextPrivate
    /\ sp.trace = <<"Navigate", "DismissModal", "CheckAccess">>

\* C6: scrape_multiple_profiles visits every identifier of its input; a profile
\* without record or an exception does not stop the batch; on return
\* successful + failed = total and there are as many records as successes
C6_BatchCompletes ==
    bt.pc = "done" =>
        /\ bt.visited = bt.urls
        /\ bt.successful + bt.failed = bt.total
        /\ Len(bt.profiles) = bt.successful

C6_Witness ==
    bt.pc = "done" /\ bt.total = 3 /\ bt.profiles = <<1, 3>> /\ bt.failed = 1

(***************************************************************************)
(* Claims about the persistence layer and the workflows.                   *)
(***************************************************************************)
StoredUrls(rows) == {rows[i].profile_url : i \in 1..Len(rows)}

\* the phrase of the scenario, as page text
PhraseNotAvailable == <<"profile", "is", "not", "available">>

SaysNotAvailable(env) == env.nav_ok /\ Contains(Lower(env.text), PhraseNotAvailable)

\* C5: a profile whose page text contains "profile is not available" ends with
\* no record and its retry counter is not incremented, in every workflow
C5_UnavailableNoRetry ==
    wf.pc = "finished" =>
        \A k \in 1..Len(wf.results) :
            (wf.results[k] # "skipped" /\ SaysNotAvailable(wf.envs[k])) =>
                /\ wf.results[k] = "no_record"
                /\ RetryOf(db.rows, wf.urls[k]) = RetryOf(wf.pre, wf.urls[k])

\* C8: add_profiles returns the number of identifiers that were not stored
\* (duplicates inside the list counted once), leaves every stored row as it
\* was, and enqueueing the same list again returns 0 and changes no row
C8_EnqueueIdempotent ==
    db.last.op = "add_profiles" =>
        /\ db.last.ret = Cardinality(Range(db.last.urls) \ StoredUrls(db.last.pre))
        /\ IsPrefix(db.last.pre, db.rows)
        /\ StoredUrls(db.rows) = StoredUrls(db.last.pre) \cup Range(db.last.urls)
        /\ AddProfiles(db.rows, db.last.urls) = [rows |-> db.rows, added |-> 0]

C8_Witness ==
    /\ db.last.op = "add_profiles" /\ db.last.urls = <<1, 2, 2>>
    /\ db.last.ret = 1 /\ StoredUrls(db.last.pre) = {1}

\* C9: an identifier whose scrape attempt failed is returned by list-pending
\* while its retry counter is below the cap of 3, and never once it reached it
C9_FailedOfferedAgain ==
    \A r \in Range(db.rows) :
        r.status = "failed" =>
            (r.retry_count < RetryCap
                <=> r.profile_url \in Range(GetPendingProfiles(db.rows, Len(db.rows))))

\* C10: every failed scrape attempt of an enqueued identifier increments its
\* retry counter by exactly one, in each of the three workflows
C10_FailureIncrementsRetry ==
    wf.pc = "finished" =>
        \A k \in 1..Len(wf.results) :
            wf.results[k] = "no_record" =>
                RetryOf(db.rows, wf.urls[k]) = RetryOf(wf.pre, wf.urls[k]) + 1

\* C11: whatever add_profiles, save_profile_data, mark_profile_failed and
\* cleanup_old_data calls came before, the table holds at most one row per
\* profile URL, and so at most one stored record per profile URL
C11_OneRowPerIdentifier ==
    /\ \A i, j \in 1..Len(db.rows) :
          db.rows[i].profile_url = db.rows[j].profile_url => i = j
    /\ \A u \in Ids :
          Cardinality({i \in 1..Len(db.rows) :
                          db.rows[i].profile_url = u /\ db.rows[i].data # 0}) <= 1

\* a URL whose record is stored was given to add_profiles again, twice in one list
C11_Witness ==
    /\ db.last.op = "add_profiles"
    /\ \E i, j \in 1..Len(db.last.urls) :
          /\ i # j /\ db.last.urls[i] = db.last.urls[j]
          /\ IsProfileScraped(db.last.pre, db.last.urls[i])
          /\ IsProfileScraped(db.rows, db.last.urls[i])

(***************************************************************************)
(* Claims about validate_profile.                                          *)
(***************************************************************************)
\* C12: the score validate_profile reports lies in 0..100, and a record
\* whose name is missing or empty has is_valid = false
C12_ScoreInRangeNameRequired ==
    val.pc = "done" =>
        /\ val.report.score \in 0..100
        /\ ~Filled(val.profile_data.name) => ~val.report.is_valid

\* a record without a name on which every other check fires too
C12_Witness ==
    /\ val.pc = "done"
    /\ ~val.profile_data.name.present
    /\ UrlFormatFired(val.profile_data) /\ ShortAboutFired(val.profile_data)
    /\ ListFormatFired(val.profile_data.experience)
    /\ ListFormatFired(val.profile_data.skills)
    /\ val.report.score = 30 /\ ~val.report.is_valid

\* C13: is_valid is false exactly when a required-field check (profile_url,
\* name) or the name-format check fired
C13_InvalidIffRequiredOrNameFormat ==
    val.pc = "done" =>
        (~val.report.is_valid
            <=> (MissingRequired(val.profile_data) # {}
                 \/ NameFormatFired(val.profile_data)))

Penalty(fired, points) == IF fired THEN points ELSE 0

\* the penalties of a record, read off the record itself: the required
\* fields missing or empty, a name that fails the format check, a non-empty
\* experience / skills value that is no list, a non-empty about section
\* shorter than 20 characters
StatedPenalties(pd) ==
    20 * Cardinality({f \in {"profile_url", "name"} :
                         ~pd[f].present \/ pd[f].value = <<>>})
    + Penalty(pd.name.present /\ pd.name.value # <<>>
                 /\ ~IsValidName(pd.name.value), 5)
    + Penalty(pd.experience.present /\ pd.experience.value.items # <<>>
                 /\ ~pd.experience.value.is_list, 10)
    + Penalty(pd.skills.present /\ pd.skills.value.items # <<>>
                 /\ ~pd.skills.value.is_list, 10)
    + Penalty(pd.about.present /\ pd.about.value # <<>>
                 /\ Len(pd.about.value) < 20, 10)

\* a non-empty identifier that does not start with https://www.linkedin.com
ForeignUrl(pd) ==
    pd.profile_url.present /\ pd.profile_url.value # <<>>
    /\ ~IsPrefix(<<"https://", "www.linkedin.com">>, pd.profile_url.value)

\* C30, as the code has it: the score is 100 minus the stated penalties and
\* minus 20 for a non-empty identifier that is no LinkedIn URL, floored at
\* 0; nothing else changes it
C30_ScoreWithUrlPenalty ==
    val.pc = "done" =>
        val.report.score
          = Max(0, 100 - StatedPenalties(val.profile_data)
                       - Penalty(ForeignUrl(val.profile_data), 20))

\* a record with a foreign URL, a bad name and a short about: 100 - 20 - 5 - 10
C30_Witness ==
    /\ val.pc = "done" /\ val.report.score = 65
    /\ ForeignUrl(val.profile_data)
    /\ StatedPenalties(val.profile_data) = 15

\* C30 as stated: the score is 100 minus the stated penalties, floored at 0
C30_ScoreAsStated ==
    val.pc = "done" =>
        val.report.score = Max(0, 100 - StatedPenalties(val.profile_data))

(***************************************************************************)
(* Claims about the extraction engine.                                     *)
(***************************************************************************)
NonEmptyTracked(pd) == {f \in Range(CompletenessFields) : pd[f] = "value"}

\* C14: the completeness of a record is an integer in 0..100 equal to
\* floor(100 * k / 7), k the number of non-empty fields among the seven
\* tracked ones, and making one more of the seven non-empty never lowers it
C14_CompletenessFloorMonotone ==
    (ex.pc = "done" /\ ex.result = "record") =>
        LET pd == ex.profile_data
            k == Cardinality(NonEmptyTracked(pd))
        IN  /\ ex.completeness \in 0..100
            /\ 7 * ex.completeness <= 100 * k
            /\ 100 * k < 7 * (ex.completeness + 1)
            /\ \A f \in Range(CompletenessFields) \ NonEmptyTracked(pd) :
                  CalculateCompleteness([pd EXCEPT ![f] = "value"]) >= ex.completeness

\* a record with three of the seven fields, scored 42
C14_Witness ==
    /\ ex.pc = "done" /\ ex.result = "record"
    /\ Cardinality(NonEmptyTracked(ex.profile_data)) = 3
    /\ ex.completeness = 42

\* C16: an extractor that fails (it raised, and no text fallback of its
\* handler found a value) leaves its field absent and the extractors after
\* it still run; extract_complete_profile returns no record only when
\* the capture of the page text failed
C16_ExtractorFailureIsLocal ==
    /\ \A f \in ex.raised \ ex.saved : ex.profile_data[f] = "absent"
    /\ ex.pc = "done" =>
          /\ ex.result = "no record" <=> ex.all_text # "value"
          /\ ex.result = "record" => ex.ran = Extractors

\* a record although the extractors of name, about and recommendations failed
C16_Witness ==
    /\ ex.pc = "done" /\ ex.result = "record"
    /\ {"name", "about", "recommendations"} \subseteq ex.raised \ ex.saved
    /\ ex.profile_data["skills"] = "value"

\* the index of the Experience header of the text, 0 when it has none
HeaderIndex(lines) ==
    IF \E i \in 1..Len(lines) : ContainsAny(LowerLine(Strip(lines[i])), SectionHeaders)
    THEN CHOOSE i \in 1..Len(lines) :
            /\ ContainsAny(LowerLine(Strip(lines[i])), SectionHeaders)
            /\ \A j \in 1..(i - 1) :
                  ~ContainsAny(LowerLine(Strip(lines[j])), SectionHeaders)
    ELSE 0

\* the lines before the first stop-section header that follows the header
BeforeStop(lines) ==
    LET h == HeaderIndex(lines)
        stops == {i \in (h + 1)..Len(lines) :
                     h > 0 /\ ContainsAny(LowerLine(Strip(lines[i])), StopSections)}
    IN  IF stops = {} THEN lines
        ELSE SubSeq(lines, 1, (CHOOSE i \in stops : \A j \in stops : i <= j) - 1)

EntryLines(exps) ==
    UNION {{exps[i].title, exps[i].company, exps[i].duration, exps[i].description} :
              i \in 1..Len(exps)} \ {<<>>}

\* C17: the lines "Experience", "Senior Engineer", "Acme Inc, 2020-2023",
\* "Built systems", "Education" give exactly one experience entry, with
\* title "Senior Engineer" and company "Acme Inc, 2020-2023"; and no line at
\* or after the first stop-section header after the Experience header
\* contributes to an entry
C17_ExperienceScenario ==
    xp.pc = "done" =>
        /\ xp.lines = ScenarioLines =>
              /\ Len(xp.experiences) = 1
              /\ xp.experiences[1].title = LineSeniorEngineer
              /\ xp.experiences[1].company = LineAcme
        /\ EntryLines(xp.experiences) \subseteq Range(BeforeStop(xp.lines))

(***************************************************************************)
(* Claims about the pacing delay.                                          *)
(***************************************************************************)
\* C15: for 0 <= min <= max, random_delay sleeps once, for a duration in
\* [min, 2.5 * max]: in [1.5 * max, 2.5 * max] on the long-pause branch and
\* in [min, max] otherwise
C15_DelayWithinBounds ==
    (hb.pc = "done" /\ 0 <= hb.min_seconds /\ hb.min_seconds <= hb.max_seconds) =>
        /\ hb.draws = 1 /\ Len(hb.slept) = 1
        /\ 4 * hb.min_seconds <= hb.slept[1] /\ hb.slept[1] <= 10 * hb.max_seconds
        /\ hb.branch = "long" =>
              (6 * hb.max_seconds <= hb.slept[1] /\ hb.slept[1] <= 10 * hb.max_seconds)
        /\ hb.branch = "short" =>
              (4 * hb.min_seconds <= hb.slept[1] /\ hb.slept[1] <= 4 * hb.max_seconds)

\* a long pause of the full 2.5 * max, and more than max, was slept
C15_Witness ==
    /\ hb.pc = "done" /\ hb.branch = "long"
    /\ 0 < hb.min_seconds /\ hb.min_seconds < hb.max_seconds
    /\ hb.slept = <<10 * hb.max_seconds>>

(***************************************************************************)
(* Claims about the contact info.                                          *)
(***************************************************************************)
\* C18: the Contact Info a returned Profile Record carries has a non-empty
\* list for each of the thirteen categories, whichever path produced it
C18_EveryCategoryNonEmpty ==
    ci.attached =>
        \A c \in Categories :
            c \in DOMAIN ci.profile_contact.d /\ ci.profile_contact.d[c] # {}

\* C19: contact text with only the email "john@acme.com" and the phone
\* "+1 415 555 0100" parses to emails = ["john@acme.com"],
\* phones = ["+1 415 555 0100"] and ["N/A"] for every other category
C19_EmailAndPhoneOnly ==
    (pci.pc = "done" /\ ~pci.raised
       /\ pci.contact_text = <<LineJohnEmail, LineJohnPhone>>) =>
        /\ pci.contact_info.emails = {"john@acme.com"}
        /\ pci.contact_info.phones = {"+1 415 555 0100"}
        /\ \A c \in Categories \ {"emails", "phones"} : pci.contact_info[c] = {"N/A"}

\* C24: when method 2 has taken the browser to the overlay URL, the navigate
\* back to the profile URL is made before _extract_contact_info returns
C24_NavigatedBackAfterOverlay ==
    (ci.pc \in {"page_scan", "attach", "done"} /\ ci.away) => ci.back # "none"

\* the part of C24 that holds: an overlay that was read and parsed is always
\* followed by the navigate back, whether or not it gave contact info
NavigatedBackAfterParse ==
    (ci.pc \in {"page_scan", "attach", "done"} /\ ci.tried # <<>>
       /\ Last(ci.tried) = "overlay" /\ ci.source = "overlay") => ci.back # "none"

Rank(source) == CASE source = "modal" -> 1 [] source = "overlay" -> 2 [] source = "page" -> 3

\* C27, as the code has it: the sources are tried in the order modal (click
\* on the contact-info control), overlay URL, page scan; the overlay only
\* after the modal gave no contact info, the page scan only when no earlier
\* source gave contact info; off a profile page the page scan is the only one
C27_ModalThenOverlayThenPage ==
    /\ \A i, j \in 1..Len(ci.tried) : i < j => Rank(ci.tried[i]) < Rank(ci.tried[j])
    /\ (\E i \in 1..Len(ci.tried) : ci.tried[i] = "overlay") => ci.tried[1] = "modal"
    /\ ci.source = "modal" => \A i \in 1..Len(ci.tried) : ci.tried[i] = "modal"
    /\ ci.source = "overlay" => \A i \in 1..Len(ci.tried) : ci.tried[i] # "page"

\* the overlay was tried after a modal without contact info, and gave it
C27_Witness ==
    /\ ci.pc = "done" /\ ci.tried = <<"modal", "overlay">>
    /\ ci.source = "overlay" /\ ci.attached

ClaimedRank(source) ==
    CASE source = "overlay" -> 1 [] source = "modal" -> 2 [] source = "page" -> 3

\* C27 as stated: overlay URL first, the modal only after the overlay, the
\* page scan last
C27_OverlayThenModalThenPage ==
    /\ \A i, j \in 1..Len(ci.tried) :
          i < j => ClaimedRank(ci.tried[i]) < ClaimedRank(ci.tried[j])
    /\ (\E i \in 1..Len(ci.tried) : ci.tried[i] = "modal") => ci.tried[1] = "overlay"

(***************************************************************************)
(* Claims about the user interrupt.                                        *)
(***************************************************************************)
\* C20: after a user interrupt during any step of a running workflow no
\* step of the workflow runs any more (the interrupted step is not resumed,
\* no further profile is processed), and the session is released in the
\* order page, context, browser, engine
C20_InterruptStopsWorkflow ==
    app.interrupted =>
        /\ app.after = {}
        /\ app.pc \in {"shutdown", "exited"}
        /\ IsPrefix(app.released, Release)
        /\ app.pc = "exited" => app.released = Release

(***************************************************************************)
(* Claims about a batch and the navigation of its profiles.                *)
(***************************************************************************)
\* the profiles of the batch whose navigate returned False at line 239, the
\* challenge not handled
CeilingProfiles == {k \in 1..Len(bt.nav_lines) : bt.nav_lines[k] = 239}

\* C22: a profile of a batch whose navigation ended on an unresolved
\* challenge is counted as failed and is not among the collected profiles,
\* and the batch still visits every one of its profiles
C22_CeilingLosesOneProfile ==
    /\ \A k \in CeilingProfiles :
          \A j \in 1..Len(bt.profiles) : bt.profiles[j] # bt.called[k]
    /\ bt.failed >= Cardinality(CeilingProfiles)
    /\ bt.successful + bt.failed = bt.i - (IF bt.pc \in {"delay", "scrape"} THEN 1 ELSE 0)
    /\ bt.pc = "done" => Len(bt.visited) = bt.total
    /\ (bt.pc = "done" /\ bt.delay_ok) => Len(bt.nav_lines) = bt.total

\* the challenge of the first of three profiles was not resolved; the other
\* two were scraped
C22_Witness ==
    /\ bt.pc = "done" /\ bt.total = 3
    /\ bt.nav_lines[1] = 239
    /\ bt.failed = 1 /\ bt.successful = 2

(***************************************************************************)
(* Claims about the adaptive delay.                                        *)
(***************************************************************************)
\* the multiplier the progress current/total calls for, in tenths: 1.0 up to
\* 70%, 1.5 above 70% and up to 90%, 2.0 above 90%
ClaimedFactor(current, total) ==
    IF 10 * current > 9 * total THEN 20
    ELSE IF 10 * current > 7 * total THEN 15
    ELSE 10

\* C23: the range _adaptive_delay draws from is the base range scaled by 1.0
\* while progress is at most 70%, by 1.5 above 70% and at most 90%, and by
\* 2.0 above 90%
C23_AdaptiveRangeByProgress ==
    ad.pc = "sleep" =>
        /\ ad.range[1] = ad.base_range[1] * ClaimedFactor(ad.current, ad.total)
        /\ ad.range[2] = ad.base_range[2] * ClaimedFactor(ad.current, ad.total)

\* the part of C23 on the first two bands: up to 90% progress the range is as
\* stated, and the delay lies in it
AdaptiveRangeUpToNinety ==
    (ad.pc = "sleep" /\ 10 * ad.current <= 9 * ad.total) =>
        /\ ad.range[1] = ad.base_range[1] * ClaimedFactor(ad.current, ad.total)
        /\ ad.range[2] = ad.base_range[2] * ClaimedFactor(ad.current, ad.total)
        /\ ad.delay >= ad.range[1] /\ ad.delay <= ad.range[2]

\* the part of C23 on the batch: the delay is taken before every profile of
\* a batch except the first
AdaptiveDelayBeforeAllButFirst ==
    bt.delay_ok => bt.delayed = [k \in 1..Len(bt.delayed) |-> k + 1]
                   /\ Len(bt.delayed) = Len(bt.called) - (IF bt.called = <<>> THEN 0 ELSE 1)

(***************************************************************************)
(* Claims about the discovery agents.                                      *)
(***************************************************************************)
NoDuplicates(q) == \A i, j \in 1..Len(q) : q[i] = q[j] => i = j

\* C7: a discovery run requesting N identifiers returns a list without
\* duplicates of length at most N; with 9 new links on each of the first 3
\* pages, working pagination and N = 25 it returns exactly 25
C7_DiscoveryCapped ==
    /\ NoDuplicates(disc.profile_urls) /\ Len(disc.profile_urls) <= disc.max_results
    /\ disc.pc = "done" =>
        /\ NoDuplicates(disc.returned) /\ Len(disc.returned) <= disc.max_results
        /\ (disc.max_results = ScenarioRequested /\ disc.fresh_pages >= 3)
              => Len(disc.returned) = ScenarioRequested

C7_Witness ==
    /\ disc.pc = "done" /\ disc.max_results = ScenarioRequested
    /\ disc.fresh_pages = 3 /\ disc.pages_done = 3
    /\ Len(disc.returned) = ScenarioRequested

\* ceil(n / 10)
CeilTenth(n) == (n + 9) \div 10

\* C28: a discovery run that ended on the page cap, with the next-page
\* control found on every page and the count not reached, has processed
\* ceil(requested / 10) + 2 listing pages; no run processes more
C28_PageCapIsCeilPlusTwo ==
    /\ disc.pages_done <= CeilTenth(disc.max_results) + 2
    /\ (disc.pc = "done" /\ disc.stop = "page cap")
          => disc.pages_done = CeilTenth(disc.max_results) + 2

\* the part of C28 that holds: a run ends on the count, on a missing next-page
\* control, on the page cap or on the failed first navigation; the cap is as
\* claimed when the requested count is a multiple of 10
PageCapOnMultiplesOfTen ==
    /\ disc.pc = "done" => disc.stop \in {"count", "no next", "page cap", "navigation"}
    /\ disc.stop = "count" => Len(disc.profile_urls) >= disc.max_results
    /\ (disc.pc = "done" /\ disc.stop = "page cap" /\ disc.max_results % 10 = 0)
          => disc.pages_done = CeilTenth(disc.max_results) + 2

\* a run for 10 identifiers that ended on the page cap after 3 pages
PageCapOnTenReached ==
    /\ disc.pc = "done" /\ disc.stop = "page cap"
    /\ disc.max_results = RoundRequested /\ disc.pages_done = 3

(***************************************************************************)
(* Claims about the link extraction.                                       *)
(***************************************************************************)
ExcludedPaths == {"/search/results/", "/notifications/", "/messaging/", "/overlay/"}

\* C29: every link either agent collects is absolute, has no query part and
\* is on none of the excluded paths, and the two agents collect the same set
\* of links from the same anchors
C29_LinksCanonicalAndAlike ==
    lk.pc = "done" =>
        /\ \A i \in 1..Len(lk.links) :
              /\ StartsWithHttp(lk.links[i])
              /\ ~Includes(lk.links[i], "?")
              /\ \A p \in ExcludedPaths : ~Includes(lk.links[i], p)
        /\ Range(ExtractProfileLinks(lk.anchors))
              = Range(ExtractConnectionLinks(lk.anchors))

\* the part of C29 that holds: every link is absolute and has no query part,
\* a link is collected once, and the connections agent collects none on an
\* excluded path
LinksAbsoluteWithoutQuery ==
    lk.pc = "done" =>
        /\ \A i \in 1..Len(lk.links) :
              /\ StartsWithHttp(lk.links[i])
              /\ ~Includes(lk.links[i], "?")
              /\ \A j \in 1..Len(lk.links) : lk.links[i] = lk.links[j] => i = j
        /\ lk.agent = "connections" =>
              \A i \in 1..Len(lk.links), p \in ExcludedPaths : ~Includes(lk.links[i], p)

(***************************************************************************)
(* Claims about the sections with several entries.                         *)
(***************************************************************************)
\* lines every extractor takes for a title: long enough, no noise token, no
\* digit, no section name
TitleLines == {LineStanford, LineSeniorEngineer}

HeaderOf(section) ==
    IF section = "experience" THEN LineExperience
    ELSE IF section = "education" THEN LineEducation
    ELSE LineLicenses

\* C31: in every section with several entries, a title-like line met while
\* the current entry has its primary field begins a new entry, so a section
\* that lists two titles yields two entries, one per title
C31_TitleLineBeginsNewEntry ==
    en.pc = "done" =>
        \A a, b \in TitleLines :
            en.lines = <<HeaderOf(en.section), a, b>> => en.primaries = <<a, b>>

\* the part of C31 that holds: _extract_experience begins an entry at every
\* title-like line
ExperienceTitleBeginsNewEntry ==
    en.pc = "done" /\ en.section = "experience" =>
        \A a, b \in TitleLines :
            en.lines = <<HeaderOf(en.section), a, b>> => en.primaries = <<a, b>>

\* what _extract_education and _extract_certifications do with a second
\* title: it becomes the first entry's degree or issuer, and one entry is
\* returned
SecondTitleFillsFirstEntry ==
    en.pc = "done" /\ en.section # "experience" =>
        \A a, b \in TitleLines :
            en.lines = <<HeaderOf(en.section), a, b>> =>
                /\ en.primaries = <<a>>
                /\ en.secondaries = << <<b, <<>> >> >>

\* neither of the two returns entries with different primary fields
OneEntryOnly ==
    en.pc = "done" /\ en.section # "experience" =>
        \A i, j \in 1..Len(en.primaries) : en.primaries[i] = en.primaries[j]

(***************************************************************************)
(* Claims about the timeouts of navigate.                                  *)
(***************************************************************************)
\* C32: within one call of navigate the first attempt uses the timeout
\* argument, every attempt but the last timed out, and the attempt after a
\* timed-out one uses floor(1.8 * previous) + j with j in 2000..5000, which
\* is larger than the previous; a new call starts from its own argument
C32_TimeoutGrowsWithinCall ==
    /\ nav.timeouts # <<>> => nav.timeouts[1] = nav.timeout
    /\ \A i \in 1..(Len(nav.timeouts) - 1) :
          /\ nav.outcomes[i] = "timeout"
          /\ nav.timeouts[i + 1] - ((nav.timeouts[i] * 18) \div 10)
                \in JitterMin..JitterMax
          /\ nav.timeouts[i + 1] > nav.timeouts[i]
    /\ nav.pc = "goto" =>
          nav.current_timeout >= nav.timeout
          /\ (nav.timeouts = <<>> => nav.current_timeout = nav.timeout)

\* the navigate of the first profile timed out on every attempt, and the
\* navigate of the second profile has timed out once and tries again
C32_Witness ==
    /\ Len(bt.nav_lines) = 1 /\ bt.nav_lines[1] = 295
    /\ nav.pc = "goto" /\ nav.outcomes = <<"timeout">>
    /\ nav.timeouts = <<ProfileNavTimeout>>
    /\ nav.current_timeout > ProfileNavTimeout

(***************************************************************************)
(* Claims about human_scroll.                                              *)
(***************************************************************************)
\* C33: when both passes read a content taller than the viewport and
\* human_scroll returns True, it has made exactly two passes: the first ended
\* at or below the content height it read, the page was then scrolled to the
\* top, and the second ended at or below the content height it read
C33_TwoPassesToBottom ==
    (hs.pc = "done" /\ hs.result = "true" /\ "visible" \notin Range(hs.log)) =>
        /\ hs.log = <<"bottom", "top", "bottom">>
        /\ Len(hs.ends) = ScrollPasses
        /\ \A i \in 1..Len(hs.ends) : hs.ends[i].position >= hs.ends[i].height

\* a call that returned True after two passes over contents of different
\* heights
C33_Witness ==
    /\ hs.pc = "done" /\ hs.result = "true"
    /\ hs.log = <<"bottom", "top", "bottom">>
    /\ hs.ends[1].height = 600 /\ hs.ends[2].height = 900
    /\ hs.ends[2].position >= 900

\* C34: every iteration of a scroll pass, also one that scrolls back, leaves
\* the position larger than it was before the iteration and not negative
C34_IterationAdvances ==
    (hs.pc = "loop" /\ hs.iterations > 0) =>
        /\ hs.current_position > hs.before
        /\ hs.current_position >= 0

\* the part of C34 that holds: a natural or fast pass advances by at least 50
\* in every iteration, so it ends within content height / 50 iterations
NaturalAndFastAdvance ==
    (hs.scroll_pattern \in {"natural", "fast"} /\ hs.iterations > 0) =>
        /\ hs.current_position >= hs.before + 50
        /\ hs.before >= 0
        /\ (hs.iterations - 1) * 50 < hs.total_height

\* a slow pass that has scrolled back by more than it advanced in each of
\* MaxIterations iterations: it is above the top of the page and has not ended
SlowPassAboveTop ==
    /\ hs.scroll_pattern = "slow" /\ hs.pc = "loop"
    /\ hs.iterations = MaxIterations
    /\ hs.current_position = 0 - 100 * MaxIterations

(***************************************************************************)
(* Claims about section expansion.                                         *)
(***************************************************************************)
RECURSIVE TotalOf(_)
TotalOf(counts) ==
    IF counts = <<>> THEN 0 ELSE counts[1] + TotalOf(Tail(counts))

\* C35: expansion makes at most 3 passes and at most 20 clicks in a pass, 60
\* in all; a pass follows only a pass that found a control; a pass clicks
\* every control up to the 20th whether or not clicks fail; and whatever
\* fails, the function returns to scrape_profile
C35_ExpansionBounded ==
    /\ Len(ea.found) <= 3 /\ ea.expand_attempts <= 3
    /\ \A k \in 1..Len(ea.clicks) : ea.clicks[k] <= 20
    /\ TotalOf(ea.clicks) <= 60
    /\ \A k \in 2..Len(ea.found) : ea.found[k - 1] >= 1
    /\ \A k \in 1..Len(ea.clicks) :
          (k < Len(ea.clicks) \/ ea.pc # "click") =>
              ea.clicks[k] = Min(ea.found[k], 20)
    /\ ea.pc = "done" => ea.result = "returned"

\* three passes of 20 clicks each, every click failed, and the function
\* returned
C35_Witness ==
    /\ ea.pc = "done" /\ ea.result = "returned"
    /\ ea.clicks = <<20, 20, 20>> /\ ea.found = <<MaxButtons, MaxButtons, MaxButtons>>
    /\ ea.failed = 60

(***************************************************************************)
(* Claims about the status of an identifier across the workflows.          *)
(***************************************************************************)
StatusOf(rows, url) ==
    IF \E i \in 1..Len(rows) : rows[i].profile_url = url
    THEN (CHOOSE r \in Range(rows) : r.profile_url = url).status
    ELSE "absent"

\* C36: an identifier that is completed stays completed: no step of any
\* workflow and no cleanup-old-data makes is_profile_scraped return False
\* for it
C36_CompletedStaysCompleted ==
    [][\A u \in Ids : IsProfileScraped(db.rows, u) => IsProfileScraped(db'.rows, u)]_vars

\* the part of C36 that holds: add_profiles, the connections workflow, the
\* resume workflow and cleanup_old_data leave a completed identifier completed
CompletedKeptOutsideSearch ==
    [][wf'.kind # "search" =>
          \A u \in Ids : IsProfileScraped(db.rows, u) => IsProfileScraped(db'.rows, u)]_vars

\* a search found a completed identifier again, its scrape returned no
\* record, and the identifier is now failed
CompletedTurnedFailed ==
    /\ wf.kind = "search" /\ wf.pc = "finished"
    /\ \E k \in 1..Len(wf.urls) :
          /\ IsProfileScraped(wf.pre, wf.urls[k])
          /\ wf.results[k] = "no_record"
          /\ StatusOf(db.rows, wf.urls[k]) = "failed"

\* C37: an identifier that resume-pending scraped successfully is completed
\* when the workflow ends, so the next resume-pending does not return it
C37_ResumeRecordsSuccess ==
    (wf.kind = "resume" /\ wf.pc = "finished") =>
        \A k \in 1..Len(wf.urls) :
            wf.results[k] = "record" =>
                /\ IsProfileScraped(db.rows, wf.urls[k])
                /\ wf.urls[k] \notin Range(GetPendingProfiles(db.rows, Len(db.rows)))

\* what workflow_resume does: it writes nothing, so every identifier it
\* scraped is returned by get_pending_profiles again
ResumeWritesNothing ==
    (wf.kind = "resume" /\ wf.pc \in {"scrape", "finished"}) =>
        /\ db.rows = wf.pre
        /\ \A k \in 1..Len(wf.urls) :
              wf.urls[k] \in Range(GetPendingProfiles(db.rows, Len(db.rows)))

CompletenessOf(rows, url) ==
    (CHOOSE r \in Range(rows) : r.profile_url = url).data_completeness

\* C39: in every workflow that stores records, the completeness stored with
\* a record is the score the extraction computed for it (both in tenths of a
\* percent)
C39_StoredIsComputedCompleteness ==
    (wf.kind \in {"search", "connections"} /\ wf.pc = "finished") =>
        \A k \in 1..Len(wf.urls) :
            wf.results[k] = "record" =>
                CompletenessOf(db.rows, wf.urls[k]) = wf.envs[k].completeness * 10

\* the part of C39 that holds: search-and-scrape stores the computed score
SearchStoresComputedCompleteness ==
    (wf.kind = "search" /\ wf.pc = "finished") =>
        \A k \in 1..Len(wf.urls) :
            wf.results[k] = "record" =>
                CompletenessOf(db.rows, wf.urls[k]) = wf.envs[k].completeness * 10

\* what scrape_connection_profiles stores: 0.8 whatever was computed
ConnectionsStoresConstant ==
    (wf.kind = "connections" /\ wf.pc = "finished") =>
        \A k \in 1..Len(wf.urls) :
            wf.results[k] = "record" =>
                CompletenessOf(db.rows, wf.urls[k]) = ConnectionsCompleteness

\* C40: in scrape-connections, scrape_profile is not called for an identifier
\* that is_profile_scraped reports as completed, every processed identifier
\* is counted in exactly one of scraped, skipped and failed, and at the end
\* the three counts add up to the number of identifiers collected
C40_ConnectionsCountsPartition ==
    wf.kind = "connections" =>
        /\ \A k \in 1..Len(wf.results) :
              wf.reported[k] =>
                  wf.results[k] \notin {"record", "save_error", "no_record"}
        /\ wf.skipped = Cardinality({k \in 1..Len(wf.results) : wf.results[k] = "skipped"})
        /\ wf.scraped = Cardinality({k \in 1..Len(wf.results) : wf.results[k] = "record"})
        /\ wf.failed = Cardinality({k \in 1..Len(wf.results) :
                                       wf.results[k] \notin {"skipped", "record"}})
        /\ wf.scraped + wf.skipped + wf.failed = wf.i
        /\ wf.pc = "finished" => wf.scraped + wf.skipped + wf.failed = Len(wf.urls)

\* a run over two identifiers: the first was completed before and is
\* skipped, the record of the second could not be saved
C40_Witness ==
    /\ wf.kind = "connections" /\ wf.pc = "finished"
    /\ wf.results = <<"skipped", "save_error">>
    /\ wf.reported = <<TRUE, FALSE>>
    /\ wf.skipped = 1 /\ wf.failed = 1 /\ wf.scraped = 0

(***************************************************************************)
(* Specifications.                                                         *)
(***************************************************************************)
InitAll ==
    /\ nav = NavIdle /\ ses = SesInit /\ sp = SpIdle /\ bt = BtIdle
    /\ db = DbInit /\ wf = WfIdle /\ disc = DiscIdle /\ val = ValIdle
    /\ ex = ExIdle /\ hb = HbIdle /\ xp = XpIdle /\ pci = PcIdle
    /\ ci = CiIdle /\ app = AppIdle /\ ad = AdIdle /\ lk = LkIdle
    /\ en = EnIdle /\ hs = HsIdle /\ ea = EaIdle

SpecNav ==
    InitAll /\ [][NavNext /\ UNCHANGED <<ses, sp, bt, db, wf, disc, val, ex, hb, xp, pci, ci, app, ad, lk,
        en, hs, ea>>]_vars

SpecSession ==
    InitAll /\ [][SesNext /\ UNCHANGED <<nav, sp, bt, db, wf, disc, val, ex, hb, xp, pci, ci, app, ad, lk,
        en, hs, ea>>]_vars

SpecScrape ==
    InitAll /\ [][ScrapeNext /\ UNCHANGED <<nav, ses, db, wf, disc, val, ex, hb, xp, pci, ci, app, ad, lk, en,
        hs, ea>>]_vars

SpecStore ==
    InitAll /\ [][StoreNext /\ UNCHANGED <<nav, ses, sp, bt, disc, val, ex, hb, xp, pci, ci, app, ad, lk, en,
        hs, ea>>]_vars

SpecDiscovery ==
    InitAll /\ [][DiscNext /\ UNCHANGED <<nav, ses, sp, bt, db, wf, val, ex, hb, xp, pci, ci, app, ad, lk,
        en, hs, ea>>]_vars

SpecValidate ==
    InitAll /\ [][ValNext /\ UNCHANGED <<nav, ses, sp, bt, db, wf, disc, ex, hb, xp, pci, ci, app, ad, lk,
        en, hs, ea>>]_vars

SpecExtract ==
    InitAll /\ [][ExNext /\ UNCHANGED <<nav, ses, sp, bt, db, wf, disc, val, hb, xp, pci, ci, app, ad, lk,
        en, hs, ea>>]_vars

SpecDelay ==
    InitAll /\ [][HbNext /\ UNCHANGED <<nav, ses, sp, bt, db, wf, disc, val, ex, xp, pci, ci, app, ad, lk,
        en, hs, ea>>]_vars

SpecExperience ==
    InitAll /\ [][XpNext /\ UNCHANGED <<nav, ses, sp, bt, db, wf, disc, val, ex, hb, pci, ci, app, ad, lk,
        en, hs, ea>>]_vars

SpecParseContact ==
    InitAll /\ [][PcNext /\ UNCHANGED <<nav, ses, sp, bt, db, wf, disc, val, ex, hb, xp, ci, app, ad, lk,
        en, hs, ea>>]_vars

SpecContact ==
    InitAll /\ [][CiNext /\ UNCHANGED <<nav, ses, sp, bt, db, wf, disc, val, ex, hb, xp, pci, app, ad, lk,
        en, hs, ea>>]_vars

SpecInterrupt ==
    InitAll /\ [][AppNext /\ UNCHANGED <<nav, ses, sp, bt, db, wf, disc, val, ex, hb, xp, pci, ci, ad, lk,
        en, hs, ea>>]_vars

SpecBatchNav ==
    InitAll /\ [][BatchNavNext /\ UNCHANGED <<ses, db, wf, disc, val, ex, hb, xp, pci, ci, app, ad, lk, en, hs,
        ea>>]_vars

SpecAdaptive ==
    InitAll /\ [][AdNext /\ UNCHANGED <<nav, ses, sp, bt, db, wf, disc, val, ex, hb, xp, pci, ci, app, lk,
        en, hs, ea>>]_vars

SpecLinks ==
    InitAll /\ [][LkNext /\ UNCHANGED <<nav, ses, sp, bt, db, wf, disc, val, ex, hb, xp, pci, ci, app, ad,
        en, hs, ea>>]_vars

SpecEntries ==
    InitAll /\ [][EnNext /\ UNCHANGED <<nav, ses, sp, bt, db, wf, disc, val, ex, hb, xp, pci, ci, app, ad,
        lk, hs, ea>>]_vars

SpecScroll ==
    InitAll /\ [][HsNext /\ UNCHANGED <<nav, ses, sp, bt, db, wf, disc, val, ex, hb, xp, pci, ci, app, ad,
        lk, en, ea>>]_vars

SpecExpand ==
    InitAll /\ [][EaNext /\ UNCHANGED <<nav, ses, sp, bt, db, wf, disc, val, ex, hb, xp, pci, ci, app, ad,
        lk, en, hs>>]_vars

====
